---------------------------- MODULE Spec2Model ----------------------------
(***************************************************************************)
(* A model of cyrsiansk/psparser: the push-frame extractor and the segment *)
(* framer (core/partyslate/parser.py), the lenient JSON probe              *)
(* (core/partyslate/models.py), the field extractor and the per-vendor     *)
(* wrapper around them (core/partyslate/client.py).                        *)
(*                                                                         *)
(* A Python str is a sequence of one-character strings.  Positions are     *)
(* Python's: 0-based, and a slice s[a:b] clamps to the string.             *)
(***************************************************************************)
EXTENDS Integers, Sequences, FiniteSets, TLC

(***************************************************************************)
(* str primitives the code uses.                                           *)
(***************************************************************************)
Min(S) == CHOOSE x \in S : \A y \in S : x <= y

Clamp(i, n) == IF i < 0 THEN 0 ELSE IF i > n THEN n ELSE i

\* s[i:i+1]: the character at i, "" past the end.
At(s, i) == IF i >= 0 /\ i < Len(s) THEN s[i + 1] ELSE ""

\* s[a:b]
Slice(s, a, b) == SubSeq(s, Clamp(a, Len(s)) + 1, Clamp(b, Len(s)))

\* s[a:]
From(s, a) == Slice(s, a, Len(s))

\* s[i:i+len(p)] == p
MatchAt(s, p, i) ==
    /\ i >= 0
    /\ i + Len(p) <= Len(s)
    /\ \A j \in 1..Len(p) : s[i + j] = p[j]

\* s.startswith(p)
StartsWith(s, p) == MatchAt(s, p, 0)

\* s.find(p): the first position of p in s, -1 when there is none.
Find(s, p) ==
    LET First(hits) == IF hits = {} THEN -1 ELSE Min(hits)
    IN  First({i \in 0..(Len(s) - Len(p)) : MatchAt(s, p, i)})

\* p in s
Contains(s, p) == Find(s, p) # -1

\* s.split(sep, 1)[1]: what follows the first occurrence of sep (sep occurs in s).
SplitAfter(s, sep) == From(s, Find(s, sep) + Len(sep))

(***************************************************************************)
(* Python values, as json produces them.  Every value is a record of the   *)
(* same shape: t its type, s the characters of a str (or the literal of a  *)
(* number), k the items of a list or the key/value pairs of a dict (a list *)
(* item has the empty key).                                                *)
(***************************************************************************)
PyNone == [t |-> "null", s |-> <<>>, k |-> <<>>]
PyTrue == [t |-> "true", s |-> <<>>, k |-> <<>>]
PyFalse == [t |-> "false", s |-> <<>>, k |-> <<>>]
PyStr(cs) == [t |-> "str", s |-> cs, k |-> <<>>]
PyNum(cs) == [t |-> "num", s |-> cs, k |-> <<>>]
PyList(items) == [t |-> "arr", s |-> <<>>, k |-> items]
PyDict(pairs) == [t |-> "obj", s |-> <<>>, k |-> pairs]

Item(v) == [key |-> <<>>, val |-> v]
Pair(key, v) == [key |-> key, val |-> v]

\* d[key] = v on the pair list of a dict: a key already present keeps its place.
DictSet(pairs, key, v) ==
    IF \E i \in 1..Len(pairs) : pairs[i].key = key
    THEN [i \in 1..Len(pairs) |->
            IF pairs[i].key = key THEN Pair(key, v) ELSE pairs[i]]
    ELSE Append(pairs, Pair(key, v))

\* key in d
DictHas(d, key) == \E i \in 1..Len(d.k) : d.k[i].key = key

\* d[key], for a key of d
DictGet(d, key) == d.k[CHOOSE i \in 1..Len(d.k) : d.k[i].key = key].val

Digits == {"0", "1", "2", "3", "4", "5", "6", "7", "8", "9"}

\* A number literal that is not zero: some digit of its mantissa is not "0".
NumNonZero(cs) ==
    LET e == {i \in 1..Len(cs) : cs[i] \in {"e", "E"}}
        m == IF e = {} THEN Len(cs) ELSE Min(e) - 1
    IN  \E i \in 1..m : cs[i] \in Digits \ {"0"}

\* bool(v) taken as "v is not None".
TruthyNotNone(v) == v.t # "null"

\* bool(v)
Truthy(v) ==
    CASE v.t = "str" -> v.s # <<>>
      [] v.t = "num" -> NumNonZero(v.s)
      [] v.t = "true" -> TRUE
      [] v.t \in {"arr", "obj"} -> v.k # <<>>
      [] OTHER -> FALSE

(***************************************************************************)
(* json.JSONDecoder.raw_decode, as LenientJSONDecoder calls it.  A result  *)
(* is [ok, end, val]; ok = FALSE is a raised JSONDecodeError.              *)
(***************************************************************************)
WS == {" ", "\t", "\n", "\r"}

HexAny == Digits \cup {"a", "b", "c", "d", "e", "f", "A", "B", "C", "D", "E", "F"}

\* The characters json.decoder's strict string scan refuses unescaped (those
\* below U+0020 that a buffer of the model can hold).
ControlChars == {"\t", "\n", "\r"}

\* json.decoder.BACKSLASH: the character each escape stands for ("\b" and "\f"
\* are named by their escape, TLA+ having no literal for them).
BACKSLASH == [c \in {"\"", "\\", "/", "b", "f", "n", "r", "t"} |->
                CASE c = "b" -> "\\b"
                  [] c = "f" -> "\\f"
                  [] c = "n" -> "\n"
                  [] c = "r" -> "\r"
                  [] c = "t" -> "\t"
                  [] OTHER -> c]

Failed == [ok |-> FALSE, end |-> 0, val |-> PyNone]
Parsed(end, v) == [ok |-> TRUE, end |-> end, val |-> v]

\* The end of the longest run of characters of S that starts at i.
RunEnd(s, i, S) == Min({j \in i..Len(s) : At(s, j) \notin S})

\* _WHITESPACE.match(s, i).end()
SkipWs(s, i) == IF i >= Len(s) THEN i ELSE RunEnd(s, i, WS)

DigitsEnd(s, i) == IF i >= Len(s) THEN i ELSE RunEnd(s, i, Digits)

\* json.scanner.NUMBER_RE.match(s, i).end(), -1 when it does not match:
\* (-?(?:0|[1-9]\d*))(\.\d+)?([eE][-+]?\d+)?
MatchNumber(s, i) ==
    LET Exp(j2, x) ==
          IF At(s, j2) \in {"e", "E"} /\ At(s, x) \in Digits
          THEN DigitsEnd(s, x + 1) ELSE j2
        Frac(j2) ==
          Exp(j2, IF At(s, j2 + 1) \in {"+", "-"} THEN j2 + 2 ELSE j2 + 1)
        Whole(j1) ==
          IF j1 = -1 THEN -1
          ELSE Frac(IF At(s, j1) = "." /\ At(s, j1 + 1) \in Digits
                    THEN DigitsEnd(s, j1 + 2) ELSE j1)
        Sign(j0) ==
          Whole(IF At(s, j0) = "0" THEN j0 + 1
                ELSE IF At(s, j0) \in Digits THEN DigitsEnd(s, j0 + 1)
                ELSE -1)
    IN  Sign(IF At(s, i) = "-" THEN i + 1 ELSE i)

\* The number of consecutive backslashes of s that end at p, counted back to i.
BackslashRun(s, i, p) ==
    p - (CHOOSE j \in (i - 1)..p :
            /\ j = i - 1 \/ At(s, j) # "\\"
            /\ \A x \in (j + 1)..p : At(s, x) = "\\")

\* In a string body that starts at i, the backslash at p opens an escape: it is
\* not itself the character an earlier backslash escapes.
EscapeAt(s, i, p) == At(s, p) = "\\" /\ BackslashRun(s, i, p) % 2 = 1

\* The character the escape opened at p stands for.  A \uXXXX escape decodes to
\* the character named "u" \o XXXX.
Unescape(s, p) ==
    IF At(s, p + 1) = "u"
    THEN "u" \o At(s, p + 2) \o At(s, p + 3) \o At(s, p + 4) \o At(s, p + 5)
    ELSE BACKSLASH[At(s, p + 1)]

\* json.decoder.py_scanstring(s, i, strict=True), i just past the opening quote:
\* the body runs to the first quote no backslash escapes; it holds no control
\* character and only the escapes of BACKSLASH and \uXXXX.
ScanString(s, i, acc) ==
    LET valid(p) == IF At(s, p + 1) = "u"
                    THEN \A j \in 2..5 : At(s, p + j) \in HexAny
                    ELSE At(s, p + 1) \in DOMAIN BACKSLASH
        Decode(q0, escapes) ==
          LET kept(p) == ~(\/ p - 1 \in escapes
                           \/ \E j \in 2..5 :
                                 p - j \in escapes /\ At(s, p - j + 1) = "u")
              Chars(body) ==
                Parsed(q0 + 1, PyStr(acc \o
                    [n \in 1..Len(body) |->
                        IF body[n] \in escapes THEN Unescape(s, body[n])
                        ELSE At(s, body[n])]))
          IN  IF \E p \in escapes : ~valid(p) THEN Failed
              ELSE Chars(SelectSeq([n \in 1..(q0 - i) |-> i + n - 1], kept))
        Body(q0) ==
          IF \E p \in i..(q0 - 1) : At(s, p) \in ControlChars THEN Failed
          ELSE Decode(q0, {p \in i..(q0 - 1) : EscapeAt(s, i, p)})
        Close(quotes) == IF quotes = {} THEN Failed ELSE Body(Min(quotes))
    IN  Close({q \in i..(Len(s) - 1) :
                 At(s, q) = "\"" /\ BackslashRun(s, i, q - 1) % 2 = 0})

RECURSIVE ScanOnce(_, _), ObjMembers(_, _, _), ArrItems(_, _, _)

\* json.decoder.JSONObject's loop, i just past the opening quote of a key.
ObjMembers(s, i, pairs) ==
    LET More(np, q) ==
          IF At(s, q) # "\"" THEN Failed ELSE ObjMembers(s, q + 1, np)
        After(np, e) ==
          IF At(s, e) = "}" THEN Parsed(e + 1, PyDict(np))
          ELSE IF At(s, e) # "," THEN Failed
          ELSE More(np, SkipWs(s, e + 1))
        Value(key, v) ==
          IF ~v.ok THEN Failed
          ELSE After(DictSet(pairs, key.val.s, v.val), SkipWs(s, v.end))
        Colon(key, c) ==
          IF At(s, c) # ":" THEN Failed
          ELSE Value(key, ScanOnce(s, SkipWs(s, c + 1)))
        Key(key) == IF ~key.ok THEN Failed ELSE Colon(key, SkipWs(s, key.end))
    IN  Key(ScanString(s, i, <<>>))

\* json.decoder.JSONObject(s, i), i just past "{".
JSONObject(s, i) ==
    LET First(j) ==
          IF At(s, j) = "}" THEN Parsed(j + 1, PyDict(<<>>))
          ELSE IF At(s, j) # "\"" THEN Failed
          ELSE ObjMembers(s, j + 1, <<>>)
    IN  First(SkipWs(s, i))

\* json.decoder.JSONArray's loop, i at the start of an item.
ArrItems(s, i, items) ==
    LET After(ni, e) ==
          IF At(s, e) = "]" THEN Parsed(e + 1, PyList(ni))
          ELSE IF At(s, e) # "," THEN Failed
          ELSE ArrItems(s, SkipWs(s, e + 1), ni)
        Value(v) ==
          IF ~v.ok THEN Failed
          ELSE After(Append(items, Item(v.val)), SkipWs(s, v.end))
    IN  Value(ScanOnce(s, i))

\* json.decoder.JSONArray(s, i), i just past "[".
JSONArray(s, i) ==
    LET First(j) ==
          IF At(s, j) = "]" THEN Parsed(j + 1, PyList(<<>>))
          ELSE ArrItems(s, j, <<>>)
    IN  First(SkipWs(s, i))

\* json.scanner's scan_once(s, i); Failed is its StopIteration.
ScanOnce(s, i) ==
    LET Scan(c, n) ==
          IF c = "" THEN Failed
          ELSE IF c = "\"" THEN ScanString(s, i + 1, <<>>)
          ELSE IF c = "{" THEN JSONObject(s, i + 1)
          ELSE IF c = "[" THEN JSONArray(s, i + 1)
          ELSE IF MatchAt(s, <<"n", "u", "l", "l">>, i) THEN Parsed(i + 4, PyNone)
          ELSE IF MatchAt(s, <<"t", "r", "u", "e">>, i) THEN Parsed(i + 4, PyTrue)
          ELSE IF MatchAt(s, <<"f", "a", "l", "s", "e">>, i) THEN Parsed(i + 5, PyFalse)
          ELSE IF n # -1 THEN Parsed(n, PyNum(Slice(s, i, n)))
          ELSE IF MatchAt(s, <<"N", "a", "N">>, i) THEN Parsed(i + 3, PyNum(<<"N", "a", "N">>))
          ELSE IF MatchAt(s, <<"I", "n", "f", "i", "n", "i", "t", "y">>, i) THEN Parsed(i + 8, PyNum(<<"I", "n", "f", "i", "n", "i", "t", "y">>))
          ELSE IF MatchAt(s, <<"-", "I", "n", "f", "i", "n", "i", "t", "y">>, i) THEN Parsed(i + 9, PyNum(<<"-", "I", "n", "f", "i", "n", "i", "t", "y">>))
          ELSE Failed
    IN  Scan(At(s, i), MatchNumber(s, i))

\* JSONDecoder.raw_decode(s, idx)
RawDecode(s, idx) == ScanOnce(s, idx)

\* LenientJSONDecoder.decode(s): the first JSON value of s, what follows ignored.
LenientDecode(s) == RawDecode(s, SkipWs(s, 0))

\* A probe that stops at the end of the value, before the whitespace.
GetObjLengthNoTrail(s) == RawDecode(s, SkipWs(s, 0))

\* LenientJSONDecoder.get_obj_length(s): the length of the first JSON value of
\* s and of the whitespace after it (result in end); ok = FALSE when it raises.
GetObjLength(s) ==
    LET End(r) == IF r.ok THEN Parsed(SkipWs(s, r.end), r.val) ELSE Failed
    IN  End(RawDecode(s, SkipWs(s, 0)))

\* json.loads(s): as decode, and the whole of s must be the value.
JsonLoads(s) ==
    LET Whole(r) == IF r.ok /\ SkipWs(s, r.end) = Len(s) THEN r ELSE Failed
    IN  Whole(RawDecode(s, SkipWs(s, 0)))

(***************************************************************************)
(* core/partyslate/models.py: the two scanners of the framer.              *)
(***************************************************************************)
HexAlpha == Digits \cup {"a", "b", "c", "d", "e", "f"}

\* A scanner that takes the letter T for a hex digit.
HexRunWide(s) ==
    IF s = <<>> THEN <<>> ELSE Slice(s, 0, RunEnd(s, 0, HexAlpha \cup {"T"}))

\* get_next_hex_string(s): the longest prefix of s made of 0-9a-f.
get_next_hex_string(s) ==
    IF s = <<>> THEN <<>> ELSE Slice(s, 0, RunEnd(s, 0, HexAlpha))

AlphaStop == {"\"", "{", "[", "n"}

\* get_next_data_type_string(s): "T" as soon as a T is met, else the
\* characters before the first of " { [ n (all of s when there is none).
get_next_data_type_string(s) ==
    LET End(e) == IF At(s, e) = "T" THEN <<"T">> ELSE Slice(s, 0, e)
        Ends(ends) == IF ends = {} THEN s ELSE End(Min(ends))
    IN  Ends({i \in 0..(Len(s) - 1) : At(s, i) \in AlphaStop \cup {"T"}})

\* int(h, 16), h a run of 0-9a-f.
HexDigit(c) ==
    CASE c = "a" -> 10 [] c = "b" -> 11 [] c = "c" -> 12
      [] c = "d" -> 13 [] c = "e" -> 14 [] c = "f" -> 15
      [] c = "0" -> 0 [] c = "1" -> 1 [] c = "2" -> 2 [] c = "3" -> 3
      [] c = "4" -> 4 [] c = "5" -> 5 [] c = "6" -> 6 [] c = "7" -> 7
      [] c = "8" -> 8 [] c = "9" -> 9

RECURSIVE HexToInt(_)
HexToInt(h) ==
    IF h = <<>> THEN 0
    ELSE 16 * HexToInt(SubSeq(h, 1, Len(h) - 1)) + HexDigit(h[Len(h)])

(***************************************************************************)
(* core/partyslate/parser.py: the push-frame extractor.                    *)
(***************************************************************************)
\* The literal head of _PUSH_RE.
PushHead == <<"s", "e", "l", "f", ".", "_", "_", "n", "e", "x", "t", "_", "f", ".", "p", "u",
        "s", "h", "(">>

\* s.strip()
Strip(s) ==
    LET Keep(keep) ==
          IF keep = {} THEN <<>>
          ELSE Slice(s, Min(keep), (CHOOSE i \in keep : \A j \in keep : j <= i) + 1)
    IN  Keep({i \in 0..(Len(s) - 1) : At(s, i) \notin WS})

\* _PUSH_RE matched at i: self\.__next_f\.push\(\s*(\[[\s\S]*?])\s*\) .  The group
\* opens at the "[" after the head and closes at the first "]" that is followed,
\* across whitespace, by ")".  [ok, group, end].
PushMatchAt(text, i) ==
    LET none == [ok |-> FALSE, group |-> <<>>, end |-> 0]
        Group(g, q0) ==
          [ok |-> TRUE, group |-> Slice(text, g, q0 + 1),
           end |-> SkipWs(text, q0 + 1) + 1]
        Close(g, closes) == IF closes = {} THEN none ELSE Group(g, Min(closes))
        Open(g) ==
          IF At(text, g) # "[" THEN none
          ELSE Close(g, {q \in (g + 1)..(Len(text) - 1) :
                           At(text, q) = "]" /\ At(text, SkipWs(text, q + 1)) = ")"})
    IN  IF MatchAt(text, PushHead, i) THEN Open(SkipWs(text, i + Len(PushHead)))
        ELSE none

\* [m.group(1).strip() for m in push_re.finditer(text)], scanning from i.
RECURSIVE FindAllPush(_, _)
FindAllPush(text, i) ==
    LET Match(m) == <<Strip(m.group)>> \o FindAllPush(text, m.end)
        First(starts) ==
          IF starts = {} THEN <<>> ELSE Match(PushMatchAt(text, Min(starts)))
    IN  First({j \in i..Len(text) : PushMatchAt(text, j).ok})

\* tag.get("src") or ""
SrcOf(tag) == IF Truthy(tag.src) THEN tag.src.s ELSE <<>>

\* The marker taken as found at the first tag.
MarkerIndexFirst(tags, marker) == IF tags = <<>> THEN -1 ELSE 0

\* Lines 17-22: the index (0-based) of the first tag whose src holds the marker,
\* -1 for None.
MarkerIndex(tags, marker) ==
    LET First(hits) == IF hits = {} THEN -1 ELSE Min(hits)
    IN  First({i \in 0..(Len(tags) - 1) : Contains(SrcOf(tags[i + 1]), marker)})

\* tp == 1, for a value json produced (True == 1 and 1.0 == 1 in Python).  A
\* literal with an exponent is taken as 1 only when its exponent is zero.
NumIsOne(cs) ==
    LET neg == cs # <<>> /\ cs[1] = "-"
        e == {i \in 1..Len(cs) : cs[i] \in {"e", "E"}}
        m == IF e = {} THEN Len(cs) ELSE Min(e) - 1
        d == {i \in 1..m : cs[i] = "."}
        ip == IF d = {} THEN m ELSE Min(d) - 1
    IN  /\ ~neg
        /\ SubSeq(cs, 1, ip) = <<"1">>
        /\ \A i \in (ip + 2)..m : cs[i] = "0"
        /\ \A i \in (m + 2)..Len(cs) : cs[i] \in {"0", "+", "-"}
        /\ cs \notin {<<"N", "a", "N">>, <<"I", "n", "f", "i", "n", "i", "t", "y">>}

\* tp == 1 taken as "tp is a number".
TextChunkCodeAnyNumber(tp) == tp.t \in {"true", "num"}

TextChunkCode(tp) == tp.t = "true" \/ (tp.t = "num" /\ NumIsOne(tp.s))

\* Lines 43-45, one item of parsed_items: the exception raised ("" for none) and
\* the new combined buffer.
CombineOne(combined, item) ==
    IF Len(item.k) # 2
    THEN [exc |-> "ValueError", combined |-> combined]
    ELSE IF ~TextChunkCode(item.k[1].val)
    THEN [exc |-> "", combined |-> combined]
    ELSE IF item.k[2].val.t # "str"
    THEN [exc |-> "TypeError", combined |-> combined]
    ELSE [exc |-> "", combined |-> combined \o item.k[2].val.s]

(***************************************************************************)
(* core/partyslate/parser.py: the segment framer.                          *)
(***************************************************************************)
\* The signatures of the resync heuristic, in the order they are tried.
Checks == <<<<":", "{", "\"", "_", "_", "t", "y", "p", "e", "n", "a", "m", "e">>, <<"[", "\"", "$", "\"", ",", "\"", "$", "L", "1", "f", "\"", ",">>>>

ResyncBack == 2
ResyncLookahead == 20

\* A resync that leaves more than the buffer the value was sliced from.
ResyncGrow(backup_other, val, other) == backup_other \o backup_other

\* A resync that knows the first signature only.
ResyncFirstCheck(backup_other, val, other) ==
    LET Reset(index_start) ==
          From(backup_other, IF index_start < 0 THEN 0 ELSE index_start)
        Window(window) ==
          IF Contains(window, Checks[1])
          THEN Reset(Find(backup_other, Checks[1]) - ResyncBack)
          ELSE other
    IN  Window(val \o Slice(other, 0, ResyncLookahead))

\* A resync that looks for the signatures in all that follows the value.
ResyncAnywhere(backup_other, val, other) ==
    LET Reset(index_start) ==
          From(backup_other, IF index_start < 0 THEN 0 ELSE index_start)
        Found(found) ==
          IF found = {} THEN other
          ELSE Reset(Find(backup_other, Checks[Min(found)]) - ResyncBack)
    IN  Found({i \in 1..Len(Checks) : Contains(backup_other, Checks[i])})

\* No resync: the cursor stays after the value.
ResyncNever(backup_other, val, other) == other

\* Lines 90-98: the remaining buffer after a T frame, backup_other being the
\* buffer the value was sliced from, val the value, other what follows it.
Resync(backup_other, val, other) ==
    LET Reset(index_start) ==
          From(backup_other, IF index_start < 0 THEN 0 ELSE index_start)
        Found(found) ==
          IF found = {} THEN other
          ELSE Reset(Find(backup_other, Checks[Min(found)]) - ResyncBack)
        Window(window) ==
          Found({i \in 1..Len(Checks) : Contains(window, Checks[i])})
    IN  Window(val \o Slice(other, 0, ResyncLookahead))

\* obj_length without the probe: all that is left for a frame with no length.
ObjLengthNoProbe(other, declared) ==
    [ok |-> TRUE, len |-> IF declared = -1 THEN Len(other) ELSE declared]

\* obj_length when a failed probe is tolerated without a declared length too.
ObjLengthTolerant(other, declared) ==
    LET Use(attempt) ==
          [ok |-> TRUE,
           len |-> IF attempt.ok THEN attempt.end
                   ELSE IF declared = -1 THEN 0 ELSE declared]
    IN  Use(GetObjLength(other))

\* obj_length when a declared length is never overridden by the probe.
ObjLengthDeclared(other, declared) ==
    LET Use(attempt) ==
          IF declared = -1
          THEN [ok |-> attempt.ok, len |-> attempt.end]
          ELSE [ok |-> TRUE, len |-> declared]
    IN  Use(GetObjLength(other))

\* Lines 77-84: obj_length.  declared is the hex length of a T frame, -1 for
\* None.  [ok, len]; ok = FALSE when get_obj_length raises uncaught.
ObjLength(other, declared) ==
    LET Use(attempt) ==
          IF declared = -1
          THEN [ok |-> attempt.ok, len |-> attempt.end]
          ELSE [ok |-> TRUE, len |-> IF attempt.ok THEN attempt.end ELSE declared]
    IN  Use(GetObjLength(other))

\* Lines 65-75: the buffer after the type tag (and the length of a T frame).
\* [stop, other, declared]; stop when a T is followed by no hex length.
AfterTag(other, data_type) ==
    LET Text(length_hex) ==
          IF ~Truthy(PyStr(length_hex))
          THEN [stop |-> TRUE, other |-> other, declared |-> -1]
          ELSE [stop |-> FALSE, other |-> From(SplitAfter(other, length_hex), 1),
                declared |-> HexToInt(length_hex)]
    IN  IF ~Truthy(PyStr(data_type))
        THEN [stop |-> FALSE, other |-> other, declared |-> -1]
        ELSE IF data_type # <<"T">>
        THEN [stop |-> FALSE, other |-> SplitAfter(other, data_type), declared |-> -1]
        ELSE Text(get_next_hex_string(From(other, 1)))

\* Lines 52-108: one pass of the while loop on the remaining buffer.  kind is
\* "stop" (a break before any entry is built), "raise" (get_obj_length raised)
\* or "entry"; other is the remaining buffer afterwards, backup the buffer the
\* value was sliced from.
FrameIter(buf) ==
    LET none == [hex_string |-> <<>>, data_type |-> <<>>, obj_length |-> 0,
                 val |-> PyStr(<<>>)]
        Leave(kind) == [kind |-> kind, entry |-> none, other |-> buf, backup |-> buf]
        Cut(hex_string, data_type, backup_other, obj_length, val, rest) ==
          [kind |-> "entry",
           entry |-> [hex_string |-> hex_string, data_type |-> data_type,
                      obj_length |-> obj_length, val |-> PyStr(val)],
           other |-> IF data_type = <<"T">> THEN Resync(backup_other, val, rest)
                     ELSE rest,
           backup |-> backup_other]
        Length(hex_string, data_type, tag, ol) ==
          IF ~ol.ok THEN Leave("raise")
          ELSE Cut(hex_string, data_type, tag.other, ol.len,
                   Slice(tag.other, 0, ol.len), From(tag.other, ol.len))
        Tag(hex_string, data_type, tag) ==
          IF tag.stop THEN Leave("stop")
          ELSE Length(hex_string, data_type, tag, ObjLength(tag.other, tag.declared))
        Type(hex_string, o1, data_type) ==
          Tag(hex_string, data_type, AfterTag(o1, data_type))
        Delim(hex_string, o1) ==
          Type(hex_string, o1, get_next_data_type_string(o1))
        Id(hex_string) ==
          IF ~Truthy(PyStr(hex_string)) THEN Leave("stop")
          ELSE Delim(hex_string, From(SplitAfter(buf, hex_string), 1))
    IN  Id(get_next_hex_string(buf))

(***************************************************************************)
(* core/partyslate/client.py: the field extractor.  An operation that can  *)
(* raise returns the exception's class in exc ("" for none).               *)
(***************************************************************************)
\* The empty dict of the output records (out, Vendor.extra): a function from
\* key names to values.
EmptyDict == <<>>

\* d[key] = v on an output record.
OutSet(d, key, v) ==
    [x \in DOMAIN d \cup {key} |-> IF x = key THEN v ELSE d[x]]

Ok(v) == [exc |-> "", val |-> v]
Raise(e) == [exc |-> e, val |-> PyNone]

\* v[key], key a str.
Subscript(v, key) ==
    IF v.t = "obj"
    THEN IF DictHas(v, key) THEN Ok(DictGet(v, key)) ELSE Raise("KeyError")
    ELSE Raise("TypeError")

\* v[n], n an int >= 0.
IndexInt(v, n) ==
    CASE v.t = "arr" ->
           IF n < Len(v.k) THEN Ok(v.k[n + 1].val) ELSE Raise("IndexError")
      [] v.t = "str" ->
           IF n < Len(v.s) THEN Ok(PyStr(<<v.s[n + 1]>>)) ELSE Raise("IndexError")
      [] v.t = "obj" -> Raise("KeyError")
      [] OTHER -> Raise("TypeError")

\* v.get(key, default)
DotGet(v, key, default) ==
    IF v.t = "obj"
    THEN Ok(IF DictHas(v, key) THEN DictGet(v, key) ELSE default)
    ELSE Raise("AttributeError")

\* json.loads(v), v any value.
Loads(v) ==
    LET Result(r) == IF r.ok THEN Ok(r.val) ELSE Raise("JSONDecodeError")
    IN  IF v.t # "str" THEN Raise("TypeError") ELSE Result(JsonLoads(v.s))

\* A search that returns the last entry whose val starts with {"@context".
Script2IndexLast(scripts) ==
    LET Last(hits) ==
          IF hits = {} THEN -1 ELSE CHOOSE x \in hits : \A y \in hits : y <= x
    IN  Last({i \in 0..(Len(scripts) - 1) :
                /\ scripts[i + 1].val.t = "str"
                /\ StartsWith(scripts[i + 1].val.s, <<"{", "\"", "@", "c", "o", "n", "t", "e", "x", "t", "\"">>)})

\* _get_script2_index(scripts): the index (0-based) of the first entry whose
\* val starts with {"@context", -1 when there is none.
get_script2_index(scripts) ==
    LET First(hits) == IF hits = {} THEN -1 ELSE Min(hits)
    IN  First({i \in 0..(Len(scripts) - 1) :
                 /\ scripts[i + 1].val.t = "str"
                 /\ StartsWith(scripts[i + 1].val.s, <<"{", "\"", "@", "c", "o", "n", "t", "e", "x", "t", "\"">>)})

s_marker == <<"{", "\"", "d", "a", "n", "g", "e", "r", "o", "u", "s", "l", "y", "S", "e", "t",
        "I", "n", "n", "e", "r", "H", "T", "M", "L", "\"">>
s2 == <<"{", "\\", "\"", "@", "c", "o", "n", "t", "e", "x", "t", "\\", "\"">>

\* Lines 96-99 of _get_script2_alt_index: new_script[...]["__html"] of the
\* wrapper that starts sub.
InnerHtml(sub) ==
    LET Html(d) == IF d.exc # "" THEN d ELSE Subscript(d.val, <<"_", "_", "h", "t", "m", "l">>)
        Wrapper(new_script) ==
          IF ~new_script.ok THEN Raise("JSONDecodeError")
          ELSE Html(Subscript(new_script.val, <<"d", "a", "n", "g", "e", "r", "o", "u", "s", "l", "y", "S", "e", "t", "I", "n",
        "n", "e", "r", "H", "T", "M", "L">>))
    IN  Wrapper(LenientDecode(sub))

\* _get_script2_alt_index(scripts), from entry i on: [exc, idx, scripts], scripts
\* the list with the val of entry idx replaced.
RECURSIVE AltScan(_, _)
AltScan(scripts, i) ==
    LET Unwrap(inner) ==
          IF inner.exc = ""
          THEN [exc |-> "", idx |-> i,
                scripts |-> [scripts EXCEPT ![i + 1].val = inner.val]]
          ELSE AltScan(scripts, i + 1)
        Sub(sub) ==
          IF Contains(sub, s2) THEN Unwrap(InnerHtml(sub))
          ELSE AltScan(scripts, i + 1)
        Marker(val, idx) ==
          IF idx # -1 THEN Sub(From(val.s, idx)) ELSE AltScan(scripts, i + 1)
        Val(val) ==
          IF val.t # "str"
          THEN [exc |-> "AttributeError", idx |-> -1, scripts |-> scripts]
          ELSE Marker(val, Find(val.s, s_marker))
    IN  IF i >= Len(scripts)
        THEN [exc |-> "", idx |-> -1, scripts |-> scripts]
        ELSE Val(scripts[i + 1].val)

\* A search that goes on after the first wrapper and unwraps the next one too.
AltIndexUnwrapNext(scripts) ==
    LET Again(first) ==
          IF first.idx = -1 THEN first
          ELSE [first EXCEPT !.scripts = AltScan(first.scripts, first.idx + 1).scripts]
    IN  Again(AltScan(scripts, 0))

get_script2_alt_index(scripts) == AltScan(scripts, 0)

\* A search that takes any hex_string starting with 4.
Script4IndexPrefix(scripts) ==
    LET First(hits) == IF hits = {} THEN -1 ELSE Min(hits)
    IN  First({i \in 0..(Len(scripts) - 1) :
                 StartsWith(scripts[i + 1].hex_string, <<"4">>)})

\* _get_script4_index(scripts)
get_script4_index(scripts) ==
    LET First(hits) == IF hits = {} THEN -1 ELSE Min(hits)
    IN  First({i \in 0..(Len(scripts) - 1) : scripts[i + 1].hex_string = <<"4">>})

\* Lines 45-54: the body of the first try of extract_data_from_scripts.
\* [exc, out, scripts].
SiteBody(scripts, out) ==
    LET res(ss, e, o) == [exc |-> e, out |-> o, scripts |-> ss]
        Url(ss, url) ==
          IF url.exc # "" THEN res(ss, url.exc, out)
          ELSE IF Truthy(url.val) THEN res(ss, "", OutSet(out, "url", url.val))
          ELSE res(ss, "", out)
        Data(ss, data) ==
          IF data.exc # "" THEN res(ss, data.exc, out)
          ELSE Url(ss, DotGet(data.val, <<"u", "r", "l">>, PyNone))
        Idx(alt) ==
          IF alt.exc # "" THEN res(alt.scripts, alt.exc, out)
          ELSE IF alt.idx = -1 THEN res(alt.scripts, "", out)
          ELSE Data(alt.scripts, Loads(alt.scripts[alt.idx + 1].val))
        Direct(i1) ==
          Idx(IF i1 = -1 THEN get_script2_alt_index(scripts)
              ELSE [exc |-> "", idx |-> i1, scripts |-> scripts])
    IN  Direct(get_script2_index(scripts))

\* for m in team: the values the iteration yields.
IterItems(team) ==
    CASE team.t = "arr" -> Ok([i \in 1..Len(team.k) |-> team.k[i].val])
      [] team.t = "obj" -> Ok([i \in 1..Len(team.k) |-> PyStr(team.k[i].key)])
      [] team.t = "str" -> Ok([i \in 1..Len(team.s) |-> PyStr(<<team.s[i]>>)])
      [] OTHER -> Raise("TypeError")

\* A test that takes every entry to have a name.
NameInAlways(m) == [exc |-> "", val |-> TRUE]

\* "name" in m
NameIn(m) ==
    CASE m.t = "obj" -> [exc |-> "", val |-> DictHas(m, <<"n", "a", "m", "e">>)]
      [] m.t = "str" -> [exc |-> "", val |-> Contains(m.s, <<"n", "a", "m", "e">>)]
      [] m.t = "arr" ->
           [exc |-> "", val |-> \E i \in 1..Len(m.k) : m.k[i].val = PyStr(<<"n", "a", "m", "e">>)]
      [] OTHER -> [exc |-> "TypeError", val |-> FALSE]

\* Line 70: {m["name"]: m.get("title") for m in team if "name" in m}, from item
\* i on.  The keys of the result are Python values.
RECURSIVE TeamMap(_, _, _)
TeamMap(items, i, acc) ==
    LET Title(name, title) ==
          IF title.exc # "" THEN Raise(title.exc)
          ELSE TeamMap(items, i + 1, DictSet(acc, name.val, title.val))
        Name(m, name) ==
          IF name.exc # "" THEN Raise(name.exc)
          ELSE IF name.val.t \in {"arr", "obj"} THEN Raise("TypeError")
          ELSE Title(name, DotGet(m, <<"t", "i", "t", "l", "e">>, PyNone))
        Has(m, has) ==
          IF has.exc # "" THEN Raise(has.exc)
          ELSE IF ~has.val THEN TeamMap(items, i + 1, acc)
          ELSE Name(m, Subscript(m, <<"n", "a", "m", "e">>))
        Member(m) == Has(m, NameIn(m))
    IN  IF i > Len(items) THEN Ok(PyDict(acc)) ELSE Member(items[i])

ProfileIndex == 3

\* The social urls never copied.
SocialUrlsSkipped(pro_data, out0) == out0

\* The social urls copied whatever pro_data.get(key) is.
SocialUrlsUnfiltered(pro_data, out0) ==
    LET Get(key) == IF DictHas(pro_data, key) THEN DictGet(pro_data, key) ELSE PyNone
    IN  OutSet(OutSet(out0, "facebookUrl", Get(<<"f", "a", "c", "e", "b", "o", "o", "k", "U", "r", "l">>)),
               "instagramUrl", Get(<<"i", "n", "s", "t", "a", "g", "r", "a", "m", "U", "r", "l">>))

\* Lines 64-67: out[key] = pro_data.get(key) when it is truthy, for key in
\* ("facebookUrl", "instagramUrl").
SocialUrls(pro_data, out) ==
    LET Instagram(o1) ==
          IF /\ DictHas(pro_data, <<"i", "n", "s", "t", "a", "g", "r", "a", "m", "U", "r", "l">>)
             /\ Truthy(DictGet(pro_data, <<"i", "n", "s", "t", "a", "g", "r", "a", "m", "U", "r", "l">>))
          THEN OutSet(o1, "instagramUrl", DictGet(pro_data, <<"i", "n", "s", "t", "a", "g", "r", "a", "m", "U", "r", "l">>))
          ELSE o1
    IN  Instagram(IF /\ DictHas(pro_data, <<"f", "a", "c", "e", "b", "o", "o", "k", "U", "r", "l">>)
                     /\ Truthy(DictGet(pro_data, <<"f", "a", "c", "e", "b", "o", "o", "k", "U", "r", "l">>))
                  THEN OutSet(out, "facebookUrl", DictGet(pro_data, <<"f", "a", "c", "e", "b", "o", "o", "k", "U", "r", "l">>))
                  ELSE out)

\* Lines 59-70: the body of the second try of extract_data_from_scripts.
\* [exc, out]: out keeps what was assigned before an exception.
ProfileBody(scripts, out) ==
    LET res(e, o) == [exc |-> e, out |-> o]
        Map(o2, map) ==
          IF map.exc # "" THEN res(map.exc, o2)
          ELSE res("", OutSet(o2, "teamMembers", map.val))
        Items(o2, items) ==
          IF items.exc # "" THEN res(items.exc, o2)
          ELSE Map(o2, TeamMap(items.val, 1, <<>>))
        Team(o2, team) ==
          IF ~Truthy(team.val) THEN res("", o2)
          ELSE Items(o2, IterItems(team.val))
        Pro(pro_data) ==
          IF pro_data.exc # "" THEN res(pro_data.exc, out)
          ELSE IF pro_data.val.t # "obj" THEN res("AttributeError", out)
          ELSE Team(SocialUrls(pro_data.val, out),
                    DotGet(pro_data.val, <<"t", "e", "a", "m", "M", "e", "m", "b", "e", "r", "s">>, PyNone))
        Inner(inner_json) ==
          IF inner_json.exc # "" THEN res(inner_json.exc, out)
          ELSE Pro(DotGet(inner_json.val, <<"p", "r", "o">>, PyDict(<<>>)))
        Loaded(loaded) ==
          IF loaded.exc # "" THEN res(loaded.exc, out)
          ELSE Inner(IndexInt(loaded.val, ProfileIndex))
        Idx(idx4) ==
          IF idx4 = -1 THEN res("", out) ELSE Loaded(Loads(scripts[idx4 + 1].val))
    IN  Idx(get_script4_index(scripts))

\* except Exception taken as a clause that does not catch a JSONDecodeError.
ExceptionClassesNoJson ==
    {"ValueError", "TypeError", "KeyError", "IndexError", "AttributeError",
     "ClientError"}

\* The classes an "except Exception" clause catches.
ExceptionClasses == {"JSONDecodeError", "ValueError", "TypeError", "KeyError",
                     "IndexError", "AttributeError", "ClientError"}

\* An except clause for ValueError (and so JSONDecodeError) only.
ExceptValueError(e) == IF e \in {"JSONDecodeError", "ValueError"} THEN "" ELSE e

\* except Exception taken as a clause that catches nothing.
ExceptNothing(e) == e

\* Lines 55-56 and 71-72: except Exception: log.debug(...).  The exception that
\* leaves the try statement ("" for none).
ExceptDebug(e) == IF e \in ExceptionClasses THEN "" ELSE e

(***************************************************************************)
(* merge_next_f_scripts and extract_data_from_scripts as functions of      *)
(* their arguments, for the callers that run them between two awaits.      *)
(***************************************************************************)
\* Lines 28-36: raw_items, from tag i (0-based) on.
RECURSIVE RawItems(_, _)
RawItems(tags, i) ==
    IF i >= Len(tags) THEN <<>>
    ELSE FindAllPush(tags[i + 1].text, 0) \o RawItems(tags, i + 1)

\* Lines 38-40: parsed_items, acc the items parsed so far.
RECURSIVE ParseItems(_, _)
ParseItems(raw, acc) ==
    LET One(r) == IF ~r.ok THEN Raise("JSONDecodeError")
                  ELSE ParseItems(raw, Append(acc, r.val))
    IN  IF Len(acc) = Len(raw) THEN Ok(acc) ELSE One(JsonLoads(raw[Len(acc) + 1]))

\* Lines 42-45: combined, from item i (1-based) on.
RECURSIVE Combine(_, _, _)
Combine(items, i, acc) ==
    LET One(r) == IF r.exc # "" THEN Raise(r.exc) ELSE Combine(items, i + 1, r.combined)
    IN  IF i > Len(items) THEN Ok(acc) ELSE One(CombineOne(acc, items[i]))

\* Lines 52-110: the while loop, entries the entries built so far.
RECURSIVE Frames(_, _)
Frames(buf, entries) ==
    LET One(r) ==
          CASE r.kind = "stop" -> Ok(entries)
            [] r.kind = "raise" -> Raise("JSONDecodeError")
            [] OTHER -> IF Len(r.other) = 0 THEN Ok(Append(entries, r.entry))
                        ELSE Frames(r.other, Append(entries, r.entry))
    IN  One(FrameIter(buf))

\* merge_next_f_scripts(script_tags, marker_src_substring): [exc, val].
merge_next_f_scripts(tags, marker) ==
    LET Buffer(c) == IF c.exc # "" THEN Raise(c.exc) ELSE Frames(c.val, <<>>)
        Items(its) == IF its.exc # "" THEN Raise(its.exc)
                      ELSE Buffer(Combine(its.val, 1, <<>>))
        Marked(m) == IF m = -1 THEN Ok(<<>>)
                     ELSE Items(ParseItems(RawItems(tags, m + 1), <<>>))
    IN  Marked(MarkerIndex(tags, marker))

\* extract_data_from_scripts(script_entries): [exc, val], val the dict out.
extract_data_from_scripts(script_entries) ==
    LET Result(e, o) == IF e # "" THEN Raise(e) ELSE [exc |-> "", val |-> o]
        Second(p) == Result(ExceptDebug(p.exc), p.out)
        First(r) == IF ExceptDebug(r.exc) # "" THEN Raise(ExceptDebug(r.exc))
                    ELSE Second(ProfileBody(r.scripts, r.out))
    IN  First(SiteBody(script_entries, EmptyDict))

(***************************************************************************)
(* compose.py: the rows of a company.  The model's strings are ASCII: the  *)
(* accented letters of the name patterns, the dashes U+2013 and U+2014 and *)
(* the bullets of SPLIT_RE do not occur, and NFC normalisation changes     *)
(* nothing.                                                                *)
(***************************************************************************)
UpperCase == <<"A", "B", "C", "D", "E", "F", "G", "H", "I", "J", "K", "L", "M", "N", "O", "P",
        "Q", "R", "S", "T", "U", "V", "W", "X", "Y", "Z">>
LowerCase == <<"a", "b", "c", "d", "e", "f", "g", "h", "i", "j", "k", "l", "m", "n", "o", "p",
        "q", "r", "s", "t", "u", "v", "w", "x", "y", "z">>

UpperSet == {UpperCase[i] : i \in 1..26}
LowerSet == {LowerCase[i] : i \in 1..26}

\* s.lower()
Lower(s) ==
    [i \in 1..Len(s) |->
        IF s[i] \in UpperSet
        THEN LowerCase[CHOOSE j \in 1..26 : UpperCase[j] = s[i]] ELSE s[i]]

\* \b at position i of s.
Boundary(s, i) ==
    (At(s, i - 1) \in UpperSet \cup LowerSet \cup Digits \cup {"_"})
    # (At(s, i) \in UpperSet \cup LowerSet \cup Digits \cup {"_"})

\* \bw\b found in s.
HasWord(s, w) ==
    \E i \in 0..Len(s) :
       Boundary(s, i) /\ MatchAt(s, w, i) /\ Boundary(s, i + Len(w))

\* s.replace(p, r)
RECURSIVE ReplaceAll(_, _, _)
ReplaceAll(s, p, r) ==
    LET Cut(i) == IF i = -1 THEN s
                  ELSE Slice(s, 0, i) \o r \o ReplaceAll(From(s, i + Len(p)), p, r)
    IN  Cut(Find(s, p))

\* re.sub(r'[\r\n\t]+', ' ', s), from position i on.
RECURSIVE Collapse(_, _)
Collapse(s, i) ==
    IF i >= Len(s) THEN <<>>
    ELSE IF At(s, i) \in {"\r", "\n", "\t"}
    THEN <<" ">> \o Collapse(s, RunEnd(s, i, {"\r", "\n", "\t"}))
    ELSE <<At(s, i)>> \o Collapse(s, i + 1)

\* clean_raw_name(raw), lines 19-31.
clean_raw_name(raw) ==
    LET Tabs(s) == Strip(Collapse(s, 0))
        \* re.split(r'\s+[-]\s+', s)[0]
        DashCut(s, hits) == IF hits = {} THEN s ELSE Slice(s, 0, Min(hits))
        Dash(s) ==
          Tabs(Strip(DashCut(s, {i \in 0..(Len(s) - 1) :
                                   /\ At(s, i) \in WS
                                   /\ At(s, RunEnd(s, i, WS)) = "-"
                                   /\ At(s, RunEnd(s, i, WS) + 1) \in WS})))
        Pipe(s) == Dash(IF Contains(s, <<"|">>) THEN Strip(Slice(s, 0, Find(s, <<"|">>)))
                        ELSE s)
        Amp(s) == Pipe(ReplaceAll(s, <<"&", "a", "m", "p", ";">>, <<"&">>))
    IN  IF raw = <<>> THEN <<>> ELSE Amp(Strip(raw))

\* looks_like_company_team(raw), lines 33-43.
looks_like_company_team(raw) ==
    LET Low(low) ==
          \/ \E i \in 0..Len(low) :
                /\ MatchAt(low, <<"'", "s">>, i)
                /\ MatchAt(low, <<"t", "e", "a", "m">>, RunEnd(low, i + 2, WS))
                /\ Boundary(low, RunEnd(low, i + 2, WS) + 4)
          \/ /\ HasWord(low, <<"e", "v", "e", "n", "t">>) \/ HasWord(low, <<"e", "v", "e", "n", "t", "s">>)
             /\ HasWord(low, <<"t", "e", "a", "m">>)
          \/ /\ Contains(low, <<"t", "e", "a", "m">>)
             /\ \E w \in {<<"e", "v", "e", "n", "t">>, <<"e", "v", "e", "n", "t", "s">>, <<"s", "t", "a", "f", "f">>, <<"c", "o", "m", "p", "a", "n", "y">>, <<"s", "t", "u", "d", "i", "o">>, <<"g", "r", "o", "u", "p">>} :
                   Contains(low, w)
    IN  raw = <<>> \/ Low(Lower(raw))

NON_PERSON_KEYWORDS ==
    {<<"t", "e", "a", "m">>, <<"t", "e", "a", "m", "s">>, <<"s", "t", "a", "f", "f">>, <<"e", "v", "e", "n", "t", "s">>, <<"e", "v", "e", "n", "t">>, <<"c", "o", "m", "p", "a", "n", "y">>, <<"g", "r", "o", "u", "p">>, <<"s", "t", "u", "d", "i", "o">>,
     <<"o", "w", "n", "e", "r", "s">>, <<"o", "w", "n", "e", "r">>, <<"p", "l", "a", "n", "n", "e", "r", "s">>, <<"p", "l", "a", "n", "n", "e", "r">>, <<"c", "o", "l", "l", "e", "c", "t", "i", "v", "e">>, <<"w", "e", "d", "d", "i", "n", "g", "s">>,
     <<"w", "e", "d", "d", "i", "n", "g">>, <<"l", "l", "c">>, <<"c", "o">>}

\* The characters of NAME_TOKEN_RE and of the tail of CAPITALIZED_TOKEN_RE
\* (the grave accent, which no string of the model holds, left out).
NameChars == UpperSet \cup LowerSet \cup {"'", ".", "-"}
CapTail == LowerSet \cup {"'", ".", "-"}

\* Line 49: every parenthesis of s, to its first closing one on the line,
\* removed; from position i on.
RECURSIVE Unparen(_, _)
Unparen(s, i) ==
    LET Close(a) == Min({b \in (a + 1)..Len(s) : At(s, b) \in {")", ""}})
        Drop(opens) ==
          IF opens = {} THEN From(s, i)
          ELSE Slice(s, i, Min(opens)) \o Unparen(s, Close(Min(opens)) + 1)
    IN  Drop({a \in i..(Len(s) - 1) :
                /\ At(s, a) = "("
                /\ Close(a) < Len(s)
                /\ \A k \in (a + 1)..(Close(a) - 1) : At(s, k) # "\n"})

\* is_person_name(candidate), lines 45-58.
is_person_name(candidate) ==
    LET Cap(t) == /\ Len(t) >= 2
                  /\ t[1] \in UpperSet
                  /\ \A j \in 2..Len(t) : t[j] \in CapTail
        Tokens(tokens) ==
          /\ tokens # {}
          /\ ~(\A t \in tokens : Lower(t) \in NON_PERSON_KEYWORDS)
          /\ \E t \in tokens : Cap(t) /\ Lower(t) \notin NON_PERSON_KEYWORDS
        Clean(c) ==
          /\ ~looks_like_company_team(c)
          /\ Tokens({Slice(c, a, RunEnd(c, a, NameChars)) :
                       a \in {b \in 0..(Len(c) - 1) :
                                At(c, b) \in NameChars /\ At(c, b - 1) \notin NameChars}})
    IN  candidate # <<>> /\ Clean(Strip(Unparen(Strip(candidate), 0)))

\* SPLIT_RE.split(s), from position cur on: a separator is &, "and" as a word
\* in any case, /, + or ; with the whitespace around it.
RECURSIVE SplitParts(_, _)
SplitParts(s, cur) ==
    LET SepLen(k) ==
          IF At(s, k) \in {"&", "/", "+", ";"} THEN 1
          ELSE IF /\ MatchAt(Lower(s), <<"a", "n", "d">>, k)
                  /\ Boundary(s, k)
                  /\ Boundary(s, k + 3)
          THEN 3 ELSE 0
        Match(i, k) ==
          <<Slice(s, cur, i)>> \o SplitParts(s, RunEnd(s, k + SepLen(k), WS))
        First(starts) ==
          IF starts = {} THEN <<From(s, cur)>>
          ELSE Match(Min(starts), RunEnd(s, Min(starts), WS))
    IN  First({i \in cur..(Len(s) - 1) : SepLen(RunEnd(s, i, WS)) > 0})

TitleSuffixes ==
    {<<"o", "w", "n", "e", "r", "s">>, <<"o", "w", "n", "e", "r">>, <<"l", "e", "a", "d", " ", "p", "l", "a", "n", "n", "e", "r", "s">>, <<"l", "e", "a", "d", " ", "p", "l", "a", "n", "n", "e", "r">>, <<"l", "e", "a", "d">>, <<"p", "l", "a", "n", "n", "e", "r", "s">>,
     <<"p", "l", "a", "n", "n", "e", "r">>}

\* Line 70: a title that ends p, a whole word in any case, removed.
StripTitle(p) ==
    LET Cut(hits) == IF hits = {} THEN p ELSE Slice(p, 0, Min(hits))
    IN  Cut({i \in 0..(Len(p) - 1) :
               /\ Boundary(p, i)
               /\ \E t \in TitleSuffixes :
                     /\ MatchAt(Lower(p), t, i)
                     /\ Boundary(p, i + Len(t))
                     /\ RunEnd(p, i + Len(t), WS) = Len(p)})

\* split_names_from_key(raw_key), lines 60-73.
split_names_from_key(raw_key) ==
    LET Names(parts) ==
          SelectSeq([i \in 1..Len(parts) |-> Strip(StripTitle(Strip(parts[i])))],
                    is_person_name)
        Cleaned(cleaned) ==
          IF cleaned = <<>> \/ looks_like_company_team(cleaned) THEN <<>>
          ELSE Names(SplitParts(cleaned, 0))
    IN  Cleaned(clean_raw_name(raw_key))

\* extract_primary_social_url(urls, platform), lines 75-85: urls a list or a
\* falsy value, the result a str.
extract_primary_social_url(urls, platform) ==
    LET Stop(url, r) == Min({j \in r..Len(url) : At(url, j) \in {"/", "?", "#", ""}})
        \* the end of the match that starts at i, -1 when there is none
        PathEnd(url, low, r) ==
          IF MatchAt(low, platform \o <<".", "c", "o", "m", "/">>, r)
             /\ Stop(url, r + Len(platform) + 5) > r + Len(platform) + 5
          THEN Stop(url, r + Len(platform) + 5) ELSE -1
        Host(url, low, q) ==
          IF MatchAt(low, <<":", "/", "/">>, q)
          THEN PathEnd(url, low, IF MatchAt(low, <<"w", "w", "w", ".">>, q + 3) THEN q + 7 ELSE q + 3)
          ELSE -1
        EndAt(url, low, i) ==
          IF ~MatchAt(low, <<"h", "t", "t", "p">>, i) THEN -1
          ELSE Host(url, low, IF At(low, i + 4) = "s" THEN i + 5 ELSE i + 4)
        Search(url, starts) ==
          IF starts = {} THEN <<>>
          ELSE Slice(url, Min(starts), EndAt(url, Lower(url), Min(starts)))
        Found(url) ==
          IF url.t # "str" THEN <<>>
          ELSE Search(url.s, {i \in 0..Len(url.s) : EndAt(url.s, Lower(url.s), i) # -1})
        First(hits) == IF hits = {} THEN <<>> ELSE Found(urls.k[Min(hits)].val)
    IN  IF ~Truthy(urls) THEN <<>>
        ELSE First({n \in 1..Len(urls.k) : Found(urls.k[n].val) # <<>>})

Fieldnames ==
    {"Company Name", "Website", "Contact Person", "Job Title", "Phone", "Email",
     "Minimum spend", "Instagram Link", "Facebook Link"}

\* a or b
PyOr(a, b) == IF Truthy(a) THEN a ELSE b

\* No fallback row: the rows of the team members, as they are.
RowsOnly(rows, fallback) == rows

\* Lines 166-180: the fallback row appended when no person was found among
\* the team members.
RowsOrFallback(rows, fallback) == IF rows = <<>> THEN <<fallback>> ELSE rows

\* process_company(company), lines 87-180: the rows of a company whose fields
\* have the types collect_vendors writes (url_extra a dict of lists of str,
\* teamMembers a dict).
process_company(company) ==
    LET Get(d, key, default) == IF DictHas(d, key) THEN DictGet(d, key) ELSE default
        url_extra == Get(company, <<"u", "r", "l", "_", "e", "x", "t", "r", "a">>, PyDict(<<>>))
        company_phones ==
          (IF Truthy(Get(company, <<"p", "h", "o", "n", "e", "_", "n", "u", "m", "b", "e", "r">>, PyNone))
           THEN <<DictGet(company, <<"p", "h", "o", "n", "e", "_", "n", "u", "m", "b", "e", "r">>)>> ELSE <<>>)
          \o (IF Truthy(Get(url_extra, <<"p", "h", "o", "n", "e", "s">>, PyNone))
              THEN [i \in 1..Len(DictGet(url_extra, <<"p", "h", "o", "n", "e", "s">>).k) |->
                      DictGet(url_extra, <<"p", "h", "o", "n", "e", "s">>).k[i].val]
              ELSE <<>>)
        emails == PyOr(Get(url_extra, <<"e", "m", "a", "i", "l", "s">>, PyNone), PyList(<<>>))
        company_emails == [i \in 1..Len(emails.k) |-> emails.k[i].val]
        social_urls == PyOr(Get(url_extra, <<"u", "r", "l", "s">>, PyNone), PyList(<<>>))
        team_members == PyOr(Get(company, <<"t", "e", "a", "m", "M", "e", "m", "b", "e", "r", "s">>, PyNone), PyDict(<<>>))
        First(vs) == IF vs # <<>> THEN vs[1] ELSE PyStr(<<>>)
        Row(contact, title, phone, email) ==
          [f \in Fieldnames |->
             CASE f = "Company Name" ->
                    PyOr(Get(company, <<"n", "a", "m", "e">>, PyStr(<<>>)), PyStr(<<>>))
               [] f = "Website" -> PyOr(Get(company, <<"u", "r", "l">>, PyStr(<<>>)), PyStr(<<>>))
               [] f = "Contact Person" -> contact
               [] f = "Job Title" -> title
               [] f = "Phone" -> phone
               [] f = "Email" -> email
               [] f = "Minimum spend" ->
                    PyOr(Get(company, <<"m", "i", "n", "i", "m", "u", "m", "_", "s", "p", "e", "n", "d">>, PyStr(<<>>)), PyStr(<<>>))
               [] f = "Instagram Link" ->
                    PyOr(Get(company, <<"i", "n", "s", "t", "a", "g", "r", "a", "m", "U", "r", "l">>, PyStr(<<>>)),
                         PyStr(extract_primary_social_url(social_urls, <<"i", "n", "s", "t", "a", "g", "r", "a", "m">>)))
               [] OTHER ->
                    PyOr(Get(company, <<"f", "a", "c", "e", "b", "o", "o", "k", "U", "r", "l">>, PyStr(<<>>)),
                         PyStr(extract_primary_social_url(social_urls, <<"f", "a", "c", "e", "b", "o", "o", "k">>)))]
        Fallback == Row(PyStr(<<>>), PyStr(<<>>), First(company_phones),
                        First(company_emails))
        \* email_pattern.search(email), for the first token of the name
        Matches(low, token) ==
          \E i \in 0..Len(low) :
             /\ Boundary(low, i)
             /\ MatchAt(low, token, i)
             /\ \E j \in (i + Len(token))..(Len(low) - 1) :
                   /\ At(low, j) = "@"
                   /\ \A k \in (i + Len(token))..(j - 1) : At(low, k) # "\n"
        Personal(hits) ==
          IF hits = {} THEN PyStr(<<>>) ELSE company_emails[Min(hits)]
        \* name.split()[0].lower()
        FirstToken(name, a) ==
          Lower(Slice(name, a, Min({j \in a..Len(name) : At(name, j) \in WS \cup {""}})))
        Token(token) ==
          Personal({n \in 1..Len(company_emails) :
                      Matches(Lower(company_emails[n].s), token)})
        personal_email(name) ==
          IF company_emails = <<>> THEN PyStr(<<>>)
          ELSE Token(FirstToken(name, SkipWs(name, 0)))
        MemberRows(names, title) ==
          [n \in 1..Len(names) |->
             IF n = 1
             THEN Row(PyStr(names[n]), title, First(company_phones),
                      PyOr(personal_email(names[n]), First(company_emails)))
             ELSE Row(PyStr(names[n]), title, PyStr(<<>>), personal_email(names[n]))]
        RECURSIVE Members(_)
        Members(m) ==
          IF m > Len(team_members.k) THEN <<>>
          ELSE MemberRows(split_names_from_key(team_members.k[m].key),
                          team_members.k[m].val) \o Members(m + 1)
    IN  IF ~Truthy(team_members) THEN <<Fallback>>
        ELSE RowsOrFallback(Members(1), Fallback)

\* A permit given back only by a body in which nothing was raised.
SemaphoreExitOnSuccess(value, e) == IF e = "" THEN value + 1 ELSE value

\* Line 119, the exit of "async with semaphore": release(), whatever exception
\* e was raised in the body ("" for none), caught there or not.
SemaphoreExit(value, e) == value + 1

(***************************************************************************)
(* enrich.py: a row of the interchange file is a function from its column  *)
(* names to values.  Websites are ASCII without whitespace, and without a  *)
(* host written in both brackets.                                          *)
(***************************************************************************)
SchemeChars == UpperSet \cup LowerSet \cup Digits \cup {"+", "-", "."}

\* urllib.parse.uses_params
UsesParams ==
    {<<>>, <<"f", "t", "p">>, <<"h", "d", "l">>, <<"p", "r", "o", "s", "p", "e", "r", "o">>, <<"h", "t", "t", "p">>, <<"i", "m", "a", "p">>, <<"h", "t", "t", "p", "s">>, <<"s", "h", "t", "t", "p">>, <<"r", "t", "s", "p">>,
     <<"r", "t", "s", "p", "u">>, <<"s", "i", "p">>, <<"s", "i", "p", "s">>, <<"m", "m", "s">>, <<"s", "f", "t", "p">>, <<"t", "e", "l">>}

\* s up to the first character of stops.
Before(s, stops) ==
    LET Cut(hits) == IF hits = {} THEN s ELSE Slice(s, 0, Min(hits))
    IN  Cut({i \in 0..(Len(s) - 1) : At(s, i) \in stops})

\* urllib.parse.urlparse(url): [exc, scheme, netloc, path]; the query, the
\* fragment and the params are split off the path.
urlparse(url) ==
    LET \* _splitparams(path)[0]
        Params(path) ==
          LET Cut(start) ==
                IF Find(From(path, start), <<";">>) = -1 THEN path
                ELSE Slice(path, 0, start + Find(From(path, start), <<";">>))
              Last(slashes) ==
                IF slashes = {} THEN 0
                ELSE CHOOSE i \in slashes : \A j \in slashes : j <= i
          IN  Cut(Last({i \in 0..(Len(path) - 1) : At(path, i) = "/"}))
        Path(scheme, netloc, rest) ==
          [exc |-> "", scheme |-> scheme, netloc |-> netloc,
           path |-> IF scheme \in UsesParams
                    THEN Params(Before(rest, {"#", "?"}))
                    ELSE Before(rest, {"#", "?"})]
        Netloc(scheme, netloc, rest) ==
          IF (\E i \in 1..Len(netloc) : netloc[i] = "[")
               # (\E i \in 1..Len(netloc) : netloc[i] = "]")
          THEN [exc |-> "ValueError", scheme |-> scheme, netloc |-> <<>>, path |-> <<>>]
          ELSE Path(scheme, netloc, From(rest, 2 + Len(netloc)))
        Rest(scheme, rest) ==
          IF StartsWith(rest, <<"/", "/">>)
          THEN Netloc(scheme, Before(From(rest, 2), {"/", "?", "#"}), rest)
          ELSE Path(scheme, <<>>, rest)
        Scheme(i) ==
          IF /\ i > 0
             /\ url[1] \in UpperSet \cup LowerSet
             /\ \A j \in 1..i : url[j] \in SchemeChars
          THEN Rest(Lower(Slice(url, 0, i)), From(url, i + 1))
          ELSE Rest(<<>>, url)
    IN  Scheme(Find(url, <<":">>))

\* _extract_domain(website), lines 31-43: a str, or None.
extract_domain(website) ==
    LET Host(host) == IF host = <<>> THEN PyNone ELSE PyStr(host)
        Www(host) ==
          Host(Before(IF StartsWith(host, <<"w", "w", "w", ".">>) THEN From(host, 4) ELSE host, {":"}))
        Netloc(p) ==
          IF p.exc # "" THEN PyNone
          ELSE Www(Lower(IF p.netloc # <<>> THEN p.netloc ELSE p.path))
    IN  IF ~Truthy(website) THEN PyNone
        ELSE IF website.t # "str" THEN PyNone
        ELSE Netloc(urlparse(IF StartsWith(website.s, <<"h", "t", "t", "p">>) THEN website.s
                             ELSE <<"h", "t", "t", "p", ":", "/", "/">> \o website.s))

\* d.get(key), d a dict.
Get(d, key) == IF DictHas(d, key) THEN DictGet(d, key) ELSE PyNone

\* d.get(keys[1]) or d.get(keys[2]) or ..., d a dict.
RECURSIVE GetOr(_, _)
GetOr(d, keys) ==
    IF Len(keys) = 1 THEN Get(d, keys[1])
    ELSE PyOr(Get(d, keys[1]), GetOr(d, Tail(keys)))

\* key in v
In(key, v) ==
    CASE v.t = "obj" -> [exc |-> "", val |-> DictHas(v, key)]
      [] v.t = "str" -> [exc |-> "", val |-> Contains(v.s, key)]
      [] v.t = "arr" ->
           [exc |-> "", val |-> \E i \in 1..Len(v.k) : v.k[i].val = PyStr(key)]
      [] OTHER -> [exc |-> "TypeError", val |-> FALSE]

CandidateKeys == <<<<"d", "a", "t", "a">>, <<"r", "e", "s", "u", "l", "t">>, <<"p", "e", "r", "s", "o", "n">>, <<"p", "r", "o", "f", "i", "l", "e">>>>
EmailKeys == <<<<"e", "m", "a", "i", "l">>, <<"e", "m", "a", "i", "l", "s">>, <<"w", "o", "r", "k", "_", "e", "m", "a", "i", "l">>, <<"p", "e", "r", "s", "o", "n", "a", "l", "_", "e", "m", "a", "i", "l">>>>
PhoneKeys == <<<<"p", "h", "o", "n", "e">>, <<"p", "h", "o", "n", "e", "s">>>>
ValueKeys == <<<<"v", "a", "l", "u", "e">>, <<"c", "o", "n", "t", "a", "c", "t">>, <<"e", "m", "a", "i", "l">>, <<"p", "h", "o", "n", "e">>>>

\* Lines 53-67: the loop over the candidate keys, from key n on.
\* [exc, email, phone].
RECURSIVE Candidates(_, _, _, _)
Candidates(res, n, email, phone) ==
    LET First(v) == IF v.t = "arr" THEN v.k[1].val ELSE v
        Take(sub_email, sub_phone) ==
          Candidates(res, n + 1,
                     IF Truthy(sub_email) /\ ~Truthy(email) THEN First(sub_email)
                     ELSE email,
                     IF Truthy(sub_phone) /\ ~Truthy(phone) THEN First(sub_phone)
                     ELSE phone)
        Sub(sub) ==
          IF sub.exc # "" THEN [exc |-> sub.exc, email |-> email, phone |-> phone]
          ELSE IF sub.val.t # "obj" THEN Candidates(res, n + 1, email, phone)
          ELSE Take(GetOr(sub.val, EmailKeys), GetOr(sub.val, PhoneKeys))
        Has(has) ==
          IF has.exc # "" THEN [exc |-> has.exc, email |-> email, phone |-> phone]
          ELSE IF ~has.val THEN Candidates(res, n + 1, email, phone)
          ELSE Sub(Subscript(res, CandidateKeys[n]))
    IN  IF n > Len(CandidateKeys) THEN [exc |-> "", email |-> email, phone |-> phone]
        ELSE Has(In(CandidateKeys[n], res))

\* Lines 69-76: e[0] if isinstance(e, list) and e else (e if isinstance(e, str)
\* else None), for e = res.get(...) or ..., when nothing was found yet.
TopLevel(found, e) ==
    IF Truthy(found) \/ ~Truthy(e) THEN found
    ELSE IF e.t = "arr" THEN e.k[1].val
    ELSE IF e.t = "str" THEN e
    ELSE PyNone

\* Lines 81-91: the loop over contacts, from contact i on.  [exc, email, phone].
RECURSIVE Contacts(_, _, _, _)
Contacts(contacts, i, email, phone) ==
    LET c == contacts[i]
        Value(kind, value) ==
          IF ~Truthy(value) THEN Contacts(contacts, i + 1, email, phone)
          ELSE Contacts(contacts, i + 1,
                        IF /\ \/ Contains(kind, <<"e", "m", "a", "i", "l">>)
                              \/ DictHas(c, <<"w", "o", "r", "k", "_", "e", "m", "a", "i", "l">>)
                              \/ DictHas(c, <<"p", "e", "r", "s", "o", "n", "a", "l", "_", "e", "m", "a", "i", "l">>)
                           /\ ~Truthy(email)
                        THEN value ELSE email,
                        IF /\ Contains(kind, <<"p", "h", "o", "n", "e">>) \/ Contains(kind, <<"m", "o", "b", "i", "l", "e">>)
                           /\ ~Truthy(phone)
                        THEN value ELSE phone)
        Kind(type) ==
          IF type.t # "str"
          THEN [exc |-> "AttributeError", email |-> email, phone |-> phone]
          ELSE Value(Lower(type.s), GetOr(c, ValueKeys))
    IN  IF i > Len(contacts) THEN [exc |-> "", email |-> email, phone |-> phone]
        ELSE IF c.t # "obj" THEN Contacts(contacts, i + 1, email, phone)
        ELSE Kind(PyOr(Get(c, <<"t", "y", "p", "e">>), PyStr(<<>>)))

\* Lines 93-96: v.strip() or None for a str.
StripOrNone(v) ==
    IF v.t = "str" THEN (IF Strip(v.s) = <<>> THEN PyNone ELSE PyStr(Strip(v.s)))
    ELSE v

\* _extract_email_and_phone_from_response(res), lines 46-98.
\* [exc, email, phone].
extract_email_and_phone_from_response(res) ==
    LET Done(r) ==
          IF r.exc # "" THEN r
          ELSE [exc |-> "", email |-> StripOrNone(r.email),
                phone |-> StripOrNone(r.phone)]
        Listed(email, phone, contacts) ==
          IF (Truthy(email) /\ Truthy(phone)) \/ contacts.t # "arr"
          THEN [exc |-> "", email |-> email, phone |-> phone]
          ELSE Contacts([i \in 1..Len(contacts.k) |-> contacts.k[i].val], 1,
                        email, phone)
        Top(r) ==
          IF r.exc # "" THEN r
          ELSE IF res.t # "obj"
          THEN [exc |-> "AttributeError", email |-> r.email, phone |-> r.phone]
          ELSE Done(Listed(TopLevel(r.email, GetOr(res, EmailKeys)),
                           TopLevel(r.phone, GetOr(res, PhoneKeys)),
                           Get(res, <<"c", "o", "n", "t", "a", "c", "t", "s">>)))
    IN  IF ~Truthy(res) THEN [exc |-> "", email |-> PyNone, phone |-> PyNone]
        ELSE Top(Candidates(res, 1, PyNone, PyNone))

\* row.get(key)
RowGet(row, key) == IF key \in DOMAIN row THEN row[key] ELSE PyNone

\* row.get(keys[1]) or row.get(keys[2]) or ...
RECURSIVE RowOr(_, _)
RowOr(row, keys) ==
    IF Len(keys) = 1 THEN RowGet(row, keys[1])
    ELSE PyOr(RowGet(row, keys[1]), RowOr(row, Tail(keys)))

WebsiteKeys == <<"Website", "website", "Site">>
ContactKeys == <<"Contact Person", "Contact", "ContactPerson", "contact_person">>
EmailColumns == <<"Email", "email", "Work Email", "work_email">>
PhoneColumns == <<"Phone", "phone", "Mobile", "mobile">>

DefaultInclude ==
    PyList(<<Item(PyStr(<<"w", "o", "r", "k", "_", "e", "m", "a", "i", "l">>)), Item(PyStr(<<"p", "h", "o", "n", "e">>)),
             Item(PyStr(<<"p", "e", "r", "s", "o", "n", "a", "l", "_", "e", "m", "a", "i", "l">>))>>)

\* A payload that carries the website where the domain belongs.
PayloadWebsite(contact_person, website, domain, include) ==
    [full_name |-> contact_person, company_domain |-> PyList(<<Item(website)>>),
     include |-> PyOr(include, DefaultInclude)]

\* Lines 122-126: the payload of the lookup.
Payload(contact_person, website, domain, include) ==
    [full_name |-> contact_person, company_domain |-> PyList(<<Item(domain)>>),
     include |-> PyOr(include, DefaultInclude)]

\* Lines 146-151 (153-159): row[key] = v for the first of columns the row has,
\* row[columns[1]] = v when it has none.
SetColumn(row, columns, v) ==
    LET Set(has) ==
          OutSet(row, IF has = {} THEN columns[1] ELSE columns[Min(has)], v)
    IN  Set({i \in 1..Len(columns) : columns[i] \in DOMAIN row})

\* Lines 145-161: the row with what was extracted written to it.
WriteExtracted(row, extracted) ==
    LET Phone(r) ==
          IF Truthy(extracted.phone) THEN SetColumn(r, PhoneColumns, extracted.phone)
          ELSE r
    IN  Phone(IF Truthy(extracted.email)
              THEN SetColumn(row, EmailColumns, extracted.email) ELSE row)

(***************************************************************************)
(* core/contactout/client.py: ContactOutClient._request.  What the HTTP    *)
(* client does with one call of _request_with_retries is an answer: a      *)
(* response whose JSON is returned (kind "json"), a ClientResponseError of *)
(* a status, with headers and str(cre) (kind "cre"), or another exception  *)
(* (kind "exc").  Header values are ASCII strs without underscores.        *)
(***************************************************************************)
\* The value of a run of decimal digits.
RECURSIVE DecToInt(_)
DecToInt(ds) ==
    IF ds = <<>> THEN 0
    ELSE 10 * DecToInt(SubSeq(ds, 1, Len(ds) - 1)) + HexDigit(ds[Len(ds)])

\* int(ra), ra a str: <<>> when it raises, <<n>> otherwise.
IntOf(ra) ==
    LET Number(sign, ds) ==
          IF ds = <<>> \/ \E i \in 1..Len(ds) : ds[i] \notin Digits THEN <<>>
          ELSE <<sign * DecToInt(ds)>>
        Signed(t) ==
          IF At(t, 0) = "-" THEN Number(-1, From(t, 1))
          ELSE IF At(t, 0) = "+" THEN Number(1, From(t, 1))
          ELSE Number(1, t)
    IN  Signed(Strip(ra))

\* hdrs.get(name), <<>> standing for None too: a header None or "" is falsy
\* alike.
HeaderGet(hdrs, name) == IF name \in DOMAIN hdrs THEN hdrs[name] ELSE <<>>

\* Lines 88-94: retry_after of a 429.  ra is None when neither header is
\* there, and a header that is "" gives way to the other.
RetryAfter(hdrs) ==
    LET Ra(ra) == IF ra = <<>> THEN <<>> ELSE IntOf(ra)
    IN  Ra(IF HeaderGet(hdrs, "Retry-After") # <<>>
           THEN HeaderGet(hdrs, "Retry-After")
           ELSE HeaderGet(hdrs, "retry-after"))

\* The retries are used up one attempt early.
ExhaustedEarly(n, max_retries_on_429) == n >= max_retries_on_429

\* Line 96: attempt > self._max_retries_on_429
Exhausted(n, max_retries_on_429) == n > max_retries_on_429

\* Lines 99-102: sleep_for.
SleepFor(ra, backoff_factor, n) ==
    IF ra # <<>> THEN ra[1] ELSE backoff_factor * (2 ^ (n - 1))

\* Lines 106-120: the exception a ClientResponseError of a status other than
\* 429 is raised as.
MappedError(status, msg) ==
    CASE status = 400 -> "BadCredentialsError"
      [] status = 401 -> "BadRequestError"
      [] status = 403 ->
           IF Contains(Lower(msg), <<"c", "r", "e", "d", "i", "t">>) \/ Contains(Lower(msg), <<"o", "u", "t", " ", "o", "f">>)
           THEN "OutOfCreditsError" ELSE "NoAccessError"
      [] status >= 500 /\ status < 600 -> "RemoteServerError"
      [] OTHER -> "ContactOutError"

(***************************************************************************)
(* core/contactout/manager.py.  A payload is the record of the keyword     *)
(* arguments of enrich; a quota record has the keys quota, phone_quota and *)
(* search_quota; None is the string "None".                                *)
(***************************************************************************)
None == "None"

\* d.get(k, default), d a dict
DictGetOr(d, k, default) == IF k \in DOMAIN d THEN d[k] ELSE default

\* DiskCache._make_key(method, path, payload): the digest of the method, the
\* path and the payload dumped with sorted keys.
make_key(method, path, payload) == <<method, path, payload>>

\* A cache that never has the key.
CacheMiss(cache_data, method, path, payload) == None

\* DiskCache.get(method, path, payload)
CacheGet(cache_data, method, path, payload) ==
    DictGetOr(cache_data, make_key(method, path, payload), None)

\* DiskCache.set(method, path, payload, value): the _data it saves.
CacheSet(cache_data, method, path, payload, value) ==
    [key \in DOMAIN cache_data \cup {make_key(method, path, payload)} |->
        IF key = make_key(method, path, payload) THEN value ELSE cache_data[key]]

\* ContactOutTokenManager._extract_quota(stats)
extract_quota(stats) ==
    LET Quotas(usage) ==
          [quota |-> DictGetOr(usage, "remaining", DictGetOr(usage, "quota", 0)),
           phone_quota |->
               DictGetOr(usage, "phone_remaining", DictGetOr(usage, "phone_quota", 0)),
           search_quota |->
               DictGetOr(usage, "search_remaining", DictGetOr(usage, "search_quota", 0))]
    IN  Quotas(DictGetOr(stats, "usage", <<>>))

\* ContactOutTokenManager._determine_required_quota(kwargs)
determine_required_quota(kwargs) ==
    LET Has(include, x) == \E i \in 1..Len(include) : include[i] = x
        Required(include) ==
          [quota |-> IF Has(include, "work_email") \/ Has(include, "personal_email")
                     THEN 1 ELSE 0,
           phone_quota |-> IF Has(include, "phone") THEN 1 ELSE 0,
           search_quota |->
               IF \E k \in {"linkedin_url", "email", "phone"} :
                     DictGetOr(kwargs, k, "") # ""
               THEN 0 ELSE 1]
    IN  Required(DictGetOr(kwargs, "include", <<>>))

\* all(quotas.get(k, 0) >= required[k] for k in required)
Enough(token_quotas, required) ==
    \A k \in DOMAIN required : DictGetOr(token_quotas, k, 0) >= required[k]

\* A selection that takes the first token whatever its quotas.
SelectFirst(tokens, all_quotas, required) ==
    IF Len(tokens) = 0 THEN None ELSE tokens[1]

\* ContactOutTokenManager._select_token(required): the first token, in the
\* order of the dict, with enough of every quota; None without one.
select_token(tokens, all_quotas, required) ==
    LET First(hits) == IF hits = {} THEN None ELSE tokens[Min(hits)]
    IN  First({i \in 1..Len(tokens) : Enough(all_quotas[tokens[i]], required)})

(***************************************************************************)
(* core/http/http.py.                                                      *)
(***************************************************************************)
DecChars == <<"0", "1", "2", "3", "4", "5", "6", "7", "8", "9">>

\* str(n), n >= 0
RECURSIVE ToDec(_)
ToDec(n) ==
    IF n < 10 THEN <<DecChars[n + 1]>>
    ELSE ToDec(n \div 10) \o <<DecChars[(n % 10) + 1]>>

\* The part of a netloc after its last "@".
HostInfo(netloc) ==
    LET After(ats) ==
          IF ats = {} THEN netloc
          ELSE From(netloc, 1 + (CHOOSE i \in ats : \A j \in ats : j <= i))
    IN  After({i \in 0..(Len(netloc) - 1) : At(netloc, i) = "@"})

\* urlparse(url).hostname or "": the host of the netloc, in lower case.
Hostname(netloc) == Lower(Before(HostInfo(netloc), {":"}))

\* urlparse(url).port: <<>> for None, <<n>> for the int n; [exc, val].
PortOf(netloc) ==
    LET Number(ds) ==
          IF ds = <<>> THEN Ok(<<>>)
          ELSE IF \E i \in 1..Len(ds) : ds[i] \notin Digits THEN Raise("ValueError")
          ELSE IF DecToInt(ds) > 65535 THEN Raise("ValueError")
          ELSE Ok(<<DecToInt(ds)>>)
        Colon(info, i) == IF i = -1 THEN Ok(<<>>) ELSE Number(From(info, i + 1))
    IN  Colon(HostInfo(netloc), Find(HostInfo(netloc), <<":">>))

\* _strip_www(url): [exc, val].  The url is put together again from the
\* scheme in lower case, the new netloc and what followed the netloc.
strip_www(url) ==
    LET Unparse(parts, new_netloc) ==
          (IF parts.scheme = <<>> THEN <<>> ELSE parts.scheme \o <<":">>)
             \o <<"/", "/">> \o new_netloc
             \o From(url, Find(url, <<"/", "/">>) + 2 + Len(parts.netloc))
        WithPort(parts, new_host, port) ==
          IF port.exc # "" THEN Raise(port.exc)
          ELSE IF port.val # <<>> /\ port.val[1] # 0
          THEN Ok(Unparse(parts, new_host \o <<":">> \o ToDec(port.val[1])))
          ELSE Ok(Unparse(parts, new_host))
        Host(parts, hostname) ==
          IF StartsWith(hostname, <<"w", "w", "w", ".">>)
          THEN WithPort(parts, From(hostname, 4), PortOf(parts.netloc))
          ELSE Ok(url)
        Parts(parts) ==
          IF parts.exc # "" THEN Raise(parts.exc)
          ELSE Host(parts, Hostname(parts.netloc))
    IN  Parts(urlparse(url))

\* Lines 122-125: host, "" when urlparse raises.
HostOf(url) ==
    LET Parts(parts) == IF parts.exc # "" THEN <<>> ELSE Hostname(parts.netloc)
    IN  Parts(urlparse(url))

\* A client that takes every host for whitelisted.
WhitelistedAlways(url, insecure_whitelist) == TRUE

\* Line 127: host in self._insecure_whitelist
Whitelisted(url, insecure_whitelist) == HostOf(url) \in insecure_whitelist

\* A loop that gives up one attempt early.
LastAttemptEarly(n, max_retries) == n >= max_retries - 1

\* Lines 99 and 137: attempt == self._max_retries
LastAttempt(n, max_retries) == n = max_retries

(***************************************************************************)
(* optdefer/runtime.py: DeferredCall, ExecutionContext, execution_context  *)
(* and schedule_call, on the synchronous path.                             *)
(***************************************************************************)
\* DeferredCall(func, *args, **kwargs); kwargs holds _action_id (<<n>>) or
\* nothing (<<>>).
\* Two calls are equal when the three are (lines 19-24).
DeferredCall(func, args, action_id) ==
    [func |-> func, args |-> args, action_id |-> action_id]

\* Lines 38-42: what the function is run with, _action_id popped.
Run(call) == [func |-> call.func, args |-> call.args]

\* A __call__ that never finds the call in the cache.
InCacheNever(call, cache_data) == FALSE

\* Line 35: self in cache
InCache(call, cache_data) == \E e \in cache_data : e.call = call

\* DeferredCall.__call__ (lines 33-47) during __exit__, on the state
\* st = [cache, ran, batches, exc].  The function f returns its argument,
\* boom raises, and again calls a function wrapped with schedule_call: with
\* batch_blocked set that call is not appended, and its wrapper, the owner of
\* a new batch, appends the empty batch (lines 170-183, 193-196).
DeferredCallCall(call, st) ==
    IF InCache(call, st.cache) THEN st
    ELSE IF call.func = "boom"
    THEN [st EXCEPT !.ran = Append(@, Run(call)), !.exc = "KeyError"]
    ELSE IF call.func = "again"
    THEN [st EXCEPT !.ran = Append(@, Run(call)),
                    !.batches = Append(@, <<>>),
                    !.cache = @ \cup {[call |-> call, res |-> call.args]}]
    ELSE [st EXCEPT !.ran = Append(@, Run(call)),
                    !.cache = @ \cup {[call |-> call, res |-> call.args]}]

\* Lines 85-87: for batch in batches.get(): for call in batch, from batch b
\* and call k on; an exception ends the loops.
RECURSIVE RunBatches(_, _, _)
RunBatches(st, b, k) ==
    IF st.exc # "" \/ b > Len(st.batches) THEN st
    ELSE IF k > Len(st.batches[b]) THEN RunBatches(st, b + 1, 1)
    ELSE RunBatches(DeferredCallCall(st.batches[b][k], st), b, k + 1)

(***************************************************************************)
(* The pages the model is run on.  A page is described by its blocks (one  *)
(* per script element): the src attribute and the items of the text, each  *)
(* a push call of a record [tp, payload], a push call of a literal that is *)
(* written as it stands, or other text.                                    *)
(***************************************************************************)
MaxFrames == 2
MaxJunk == 3
MaxBlocks == 3

marker_src_substring == <<"w", "p", "-", "8">>

MarkerSrc == PyStr(<<"/", "_", "n", "e", "x", "t", "/", "w", "p", "-", "8", ".", "j", "s">>)
OtherSrc == PyStr(<<"/", "_", "n", "e", "x", "t", "/", "m", "a", "i", "n", ".", "j", "s">>)

\* The concatenation of the strings ss[lo..hi].
RECURSIVE ConcatRange(_, _, _)
ConcatRange(ss, lo, hi) ==
    IF lo > hi THEN <<>>
    ELSE IF lo = hi THEN ss[lo]
    ELSE ConcatRange(ss, lo, (lo + hi) \div 2)
            \o ConcatRange(ss, (lo + hi) \div 2 + 1, hi)

Concat(ss) == ConcatRange(ss, 1, Len(ss))

\* json.dumps of a str, as the page's server writes a payload.
JsonDumpStr(cs) ==
    LET esc(c) == CASE c = "\"" -> <<"\\", "\"">>
                    [] c = "\\" -> <<"\\", "\\">>
                    [] c = "\n" -> <<"\\", "n">>
                    [] c = "\t" -> <<"\\", "t">>
                    [] c = "\r" -> <<"\\", "r">>
                    [] OTHER -> <<c>>
    IN  <<"\"">> \o Concat([i \in 1..Len(cs) |-> esc(cs[i])]) \o <<"\"">>

PushItem(tp, payload) == [kind |-> "push", tp |-> tp, text |-> payload]
LiteralItem(text) == [kind |-> "literal", tp |-> <<>>, text |-> text]
TextItem(text) == [kind |-> "text", tp |-> <<>>, text |-> text]

RenderItem(it) ==
    CASE it.kind = "push" ->
           PushHead \o <<"[">> \o it.tp \o <<",">> \o JsonDumpStr(it.text) \o <<"]", ")">>
      [] it.kind = "literal" -> PushHead \o it.text \o <<")">>
      [] OTHER -> it.text

Block(src, items) == [src |-> src, items |-> items]

\* The script tags of a page: tag.get("src") and the tag's text.
Render(page) ==
    [i \in 1..Len(page) |->
        [src |-> page[i].src,
         text |-> Concat([j \in 1..Len(page[i].items) |->
                             RenderItem(page[i].items[j])])]]

\* A frame as the page's server frames it: id, one delimiter, the tag (for a T
\* frame the tag, the length in hex and a comma), the value.
HexChars == <<"0", "1", "2", "3", "4", "5", "6", "7", "8", "9",
              "a", "b", "c", "d", "e", "f">>

ToHex(n) ==
    IF n < 16 THEN <<HexChars[n + 1]>>
    ELSE <<HexChars[(n \div 16) + 1], HexChars[(n % 16) + 1]>>

Frame(id, delim, tag, len, value) ==
    [id |-> id, delim |-> delim, tag |-> tag, len |-> len, value |-> value]

Encode(f) ==
    f.id \o f.delim \o f.tag
         \o (IF f.tag = <<"T">> THEN ToHex(f.len) \o <<",">> ELSE <<>>) \o f.value

EncodeAll(fs) == Concat([i \in 1..Len(fs) |-> Encode(fs[i])])

FrameCatalog ==
    { Frame(<<"4">>, <<":">>, <<>>, -1, <<"[", "n", "u", "l", "l", "]", "\n">>),
      Frame(<<"1", "a">>, <<":">>, <<>>, -1, <<"{", "\"", "_", "_", "t", "y", "p", "e", "n", "a", "m", "e", "\"", ":", "\"", "P",
        "\"", "}", "\n">>),
      Frame(<<"6">>, <<":">>, <<>>, -1, <<"{", "\"", "_", "_", "t", "y", "p", "e", "n", "a", "m", "e", "\"", ":", "\"", "Q",
        "\"", "}", "\n">>),
      Frame(<<"5">>, <<":">>, <<"I">>, -1, <<"[", "\"", "x", "\"", "]", "\n">>),
      Frame(<<"b">>, <<",">>, <<>>, -1, <<"\"", "s", "\"">>),
      Frame(<<"7">>, <<":">>, <<>>, -1, <<"1", "2", "\n">>),
      Frame(<<"2">>, <<":">>, <<"T">>, 3, <<"h", "e", "y">>),
      Frame(<<"3">>, <<":">>, <<"T">>, 2, <<"h", "e", "y">>),
      Frame(<<"d">>, <<":">>, <<"T">>, 4, <<"h", "e", "y">>),
      Frame(<<"c">>, <<":">>, <<"T">>, 4, <<"\"", "a", "\"", "b">>) }

FrameLists == UNION {[1..n -> FrameCatalog] : n \in 0..MaxFrames}

\* The example of the specification, section 8.
ExampleBuffer ==
    <<"4", ":", "[", "n", "u", "l", "l", ",", "n", "u", "l", "l", ",", "n", "u", "l",
        "l", ",", "{", "\"", "p", "r", "o", "\"", ":", "{", "\"", "f", "a", "c", "e", "b",
        "o", "o", "k", "U", "r", "l", "\"", ":", "\"", "h", "t", "t", "p", "s", ":", "/",
        "/", "f", "b", ".", "c", "o", "m", "/", "x", "\"", ",", "\"", "t", "e", "a", "m",
        "M", "e", "m", "b", "e", "r", "s", "\"", ":", "[", "{", "\"", "n", "a", "m", "e",
        "\"", ":", "\"", "A", "n", "n", " ", "L", "e", "e", "\"", ",", "\"", "t", "i", "t",
        "l", "e", "\"", ":", "\"", "P", "l", "a", "n", "n", "e", "r", "\"", "}", "]", "}",
        "}", "]">>

\* A wrapper frame that is also the profile frame.
WrapperProfileBuffer ==
    <<"4", ":", "[", "0", ",", "0", ",", "0", ",", "{", "\"", "d", "a", "n", "g", "e",
        "r", "o", "u", "s", "l", "y", "S", "e", "t", "I", "n", "n", "e", "r", "H", "T",
        "M", "L", "\"", ":", "{", "\"", "_", "_", "h", "t", "m", "l", "\"", ":", "\"", "{",
        "\\", "\"", "@", "c", "o", "n", "t", "e", "x", "t", "\\", "\"", "}", "\"", "}",
        ",", "\"", "p", "r", "o", "\"", ":", "{", "\"", "f", "a", "c", "e", "b", "o", "o",
        "k", "U", "r", "l", "\"", ":", "\"", "f", "\"", "}", "}", "]">>

\* A site-metadata frame and a profile frame.
SiteBuffer ==
    <<"2", ":", "{", "\"", "@", "c", "o", "n", "t", "e", "x", "t", "\"", ":", "\"", "s",
        "\"", ",", "\"", "u", "r", "l", "\"", ":", "\"", "u", "\"", "}", "\n", "4", ":",
        "[", "0", ",", "0", ",", "0", ",", "{", "\"", "p", "r", "o", "\"", ":", "{", "\"",
        "i", "n", "s", "t", "a", "g", "r", "a", "m", "U", "r", "l", "\"", ":", "\"", "i",
        "\"", "}", "}", "]">>

\* Buffers whose frame has a tag before its value: a run of characters the
\* letter T ends, and a tag of two letters.
TagBuffers == {<<"7", ":", "I", "1", "T", "[", "\"", "x", "\"", "]">>, <<"8", ":", "I", "T", "2", ",", "h", "i">>, <<"8", ":", "H", "L", "[", "\"", "x", "\"", "]", "\n">>}

\* Text frames followed by a frame that begins with the array signature: the
\* declared length short, right and long; the signature at the very start of
\* the text; a signature further than the lookahead; both signatures.
SignatureBuffers ==
    {<<"2", ":", "T", "2", ",", "h", "e", "y", "9", ":", "[", "\"", "$", "\"", ",", "\"",
        "$", "L", "1", "f", "\"", ",", "n", "u", "l", "l", "]">>, <<"2", ":", "T", "3", ",", "h", "e", "y", "9", ":", "[", "\"", "$", "\"", ",", "\"",
        "$", "L", "1", "f", "\"", ",", "n", "u", "l", "l", "]">>,
     <<"2", ":", "T", "4", ",", "h", "e", "y", "9", ":", "[", "\"", "$", "\"", ",", "\"",
        "$", "L", "1", "f", "\"", ",", "n", "u", "l", "l", "]">>, <<"2", ":", "T", "1", "1", ",", "[", "\"", "$", "\"", ",", "\"", "$", "L", "1", "f",
        "\"", ",", "n", "u", "l", "l", "]">>,
     <<"2", ":", "T", "3", ",", "h", "e", "y", "5", ":", "\"", "a", "a", "a", "a", "a",
        "a", "a", "a", "a", "a", "a", "a", "a", "a", "a", "a", "a", "a", "a", "a", "\"",
        "\n", "6", ":", "{", "\"", "_", "_", "t", "y", "p", "e", "n", "a", "m", "e", "\"",
        ":", "\"", "Q", "\"", "}", "\n">>,
     <<"2", ":", "T", "d", ",", ":", "{", "\"", "_", "_", "t", "y", "p", "e", "n", "a",
        "m", "e", "9", ":", "[", "\"", "$", "\"", ",", "\"", "$", "L", "1", "f", "\"", ",",
        "1", "]">>}

JunkAlphabet == {"4", "a", ":", "T", "\"", "n", " "}

JunkBuffers == UNION {[1..n -> JunkAlphabet] : n \in 0..MaxJunk}

\* The combined buffers the framing loop is run on by itself.
FrameBuffers ==
    {EncodeAll(fs) : fs \in FrameLists}
    \cup JunkBuffers \cup TagBuffers \cup SignatureBuffers
    \cup {ExampleBuffer, WrapperProfileBuffer, SiteBuffer}

\* The page that streams buf: the bootstrap block, then buf in two chunks, in
\* two blocks, among records of other types.
PageOfBuffer(buf) ==
    LET h == Len(buf) \div 2
    IN  << Block(PyNone, <<PushItem(<<"1">>, <<"9", ":", "n", "u", "l", "l">>)>>),
           Block(MarkerSrc, <<>>),
           Block(PyNone, <<PushItem(<<"0">>, <<>>), PushItem(<<"1">>, Slice(buf, 0, h))>>),
           Block(OtherSrc, <<TextItem(<<";">>), PushItem(<<"1">>, From(buf, h)),
                             LiteralItem(<<"[", "2", ",", "n", "u", "l", "l", "]">>)>>) >>

BlockCatalog ==
    { Block(MarkerSrc, <<PushItem(<<"1">>, <<"z", "z">>)>>),
      Block(PyNone, <<PushItem(<<"1">>, <<"4", ":", "n">>)>>),
      Block(OtherSrc, <<PushItem(<<"2">>, <<"x">>), TextItem(<<" ">>), PushItem(<<"1">>, <<"u", "l", "l", "\n">>)>>),
      Block(PyStr(<<>>), <<LiteralItem(<<" ", "[", "3", ",", "n", "u", "l", "l", "]", " ">>), PushItem(<<"1">>, <<"5", ":", "\"", "]", ")", "\"">>)>>),
      Block(PyNone, <<LiteralItem(<<"[", "1", ",", "\"", "a", "]">>)>>),
      Block(PyNone, <<LiteralItem(<<"[", "1", "]">>), PushItem(<<"1">>, <<"b", ":", "\"", "c", "\"">>)>>),
      Block(OtherSrc, <<PushItem(<<"0">>, <<"q">>), LiteralItem(<<"[", "2", ",", "n", "u", "l", "l", "]">>)>>) }

BlockPages == UNION {[1..n -> BlockCatalog] : n \in 0..MaxBlocks}

\* The frame lists extract_data_from_scripts is called on directly.
MaxEntries == 2

Entry(id, val) ==
    [hex_string |-> id, data_type |-> <<>>, obj_length |-> Len(val),
     val |-> PyStr(val)]

EntryCatalog ==
    { Entry(<<"2">>, <<"{", "\"", "@", "c", "o", "n", "t", "e", "x", "t", "\"", ":", "\"", "s", "\"", ",",
        "\"", "u", "r", "l", "\"", ":", "\"", "u", "\"", "}">>),
      Entry(<<"2">>, <<"{", "\"", "@", "c", "o", "n", "t", "e", "x", "t", "\"", ":", "\"", "s", "\"", "}">>),
      Entry(<<"3">>, <<"{", "\"", "@", "c", "o", "n", "t", "e", "x", "t", "\"">>),
      Entry(<<"9">>, <<"x", "{", "\"", "d", "a", "n", "g", "e", "r", "o", "u", "s", "l", "y", "S", "e",
        "t", "I", "n", "n", "e", "r", "H", "T", "M", "L", "\"", ":", "{", "\"", "_", "_",
        "h", "t", "m", "l", "\"", ":", "\"", "{", "\\", "\"", "@", "c", "o", "n", "t", "e",
        "x", "t", "\\", "\"", ":", "1", ",", "\\", "\"", "u", "r", "l", "\\", "\"", ":",
        "\\", "\"", "w", "\\", "\"", "}", "\"", "}", "}">>),
      Entry(<<"4">>, <<"[", "0", ",", "0", ",", "0", ",", "{", "\"", "p", "r", "o", "\"", ":", "{", "\"",
        "f", "a", "c", "e", "b", "o", "o", "k", "U", "r", "l", "\"", ":", "\"", "f", "\"",
        ",", "\"", "t", "e", "a", "m", "M", "e", "m", "b", "e", "r", "s", "\"", ":", "[",
        "{", "\"", "n", "a", "m", "e", "\"", ":", "\"", "A", "\"", ",", "\"", "t", "i",
        "t", "l", "e", "\"", ":", "\"", "P", "\"", "}", "]", "}", "}", "]">>),
      Entry(<<"4">>, <<"[", "0", "]">>),
      Entry(<<"4">>, <<"[", "0", ",", "0", ",", "0", ",", "{", "\"", "p", "r", "o", "\"", ":", "{", "\"",
        "i", "n", "s", "t", "a", "g", "r", "a", "m", "U", "r", "l", "\"", ":", "\"", "i",
        "\"", ",", "\"", "t", "e", "a", "m", "M", "e", "m", "b", "e", "r", "s", "\"", ":",
        "[", "7", "]", "}", "}", "]">>),
      Entry(<<"4">>, <<"[", "0", ",", "0", ",", "0", ",", "{", "\"", "d", "a", "n", "g", "e", "r", "o",
        "u", "s", "l", "y", "S", "e", "t", "I", "n", "n", "e", "r", "H", "T", "M", "L",
        "\"", ":", "{", "\"", "_", "_", "h", "t", "m", "l", "\"", ":", "\"", "{", "\\",
        "\"", "@", "c", "o", "n", "t", "e", "x", "t", "\\", "\"", "}", "\"", "}", ",",
        "\"", "p", "r", "o", "\"", ":", "{", "\"", "f", "a", "c", "e", "b", "o", "o", "k",
        "U", "r", "l", "\"", ":", "\"", "f", "\"", "}", "}", "]">>),
      Entry(<<"8">>, <<"{", "\"", "d", "a", "n", "g", "e", "r", "o", "u", "s", "l", "y", "S", "e", "t",
        "I", "n", "n", "e", "r", "H", "T", "M", "L", "\"", ":", "{", "\"", "h", "\"", ":",
        "\"", "{", "\\", "\"", "@", "c", "o", "n", "t", "e", "x", "t", "\\", "\"", ":",
        "1", "}", "\"", "}", "}">>),
      Entry(<<"7">>, <<"\"", "s", "\"">>),
      Entry(<<"2">>, <<"{", "\"", "@", "c", "o", "n", "t", "e", "x", "t", "\"", ":", "\"", "s", "\"", ",",
        "\"", "u", "r", "l", "\"", ":", "\"", "\"", "}">>),
      Entry(<<"4">>, <<"[", "0", ",", "0", ",", "0", ",", "{", "\"", "p", "r", "o", "\"", ":", "{", "\"",
        "f", "a", "c", "e", "b", "o", "o", "k", "U", "r", "l", "\"", ":", "\"", "\"", ",",
        "\"", "i", "n", "s", "t", "a", "g", "r", "a", "m", "U", "r", "l", "\"", ":", "n",
        "u", "l", "l", ",", "\"", "t", "e", "a", "m", "M", "e", "m", "b", "e", "r", "s",
        "\"", ":", "[", "]", "}", "}", "]">>) }

EntryLists == UNION {[1..n -> EntryCatalog] : n \in 0..MaxEntries}

\* Frame lists for the profile lookup: frames 4 with a roster, and frames
\* whose hex_string has a 4 in it.
ProfileCatalog ==
    { Entry(<<"4">>, <<"[", "0", ",", "0", ",", "0", ",", "{", "\"", "p", "r", "o", "\"", ":", "{", "\"",
        "f", "a", "c", "e", "b", "o", "o", "k", "U", "r", "l", "\"", ":", "\"", "f", "\"",
        ",", "\"", "i", "n", "s", "t", "a", "g", "r", "a", "m", "U", "r", "l", "\"", ":",
        "\"", "i", "\"", ",", "\"", "t", "e", "a", "m", "M", "e", "m", "b", "e", "r", "s",
        "\"", ":", "[", "{", "\"", "n", "a", "m", "e", "\"", ":", "\"", "A", "\"", ",",
        "\"", "t", "i", "t", "l", "e", "\"", ":", "\"", "P", "\"", "}", ",", "{", "\"",
        "n", "a", "m", "e", "\"", ":", "\"", "B", "\"", ",", "\"", "t", "i", "t", "l", "e",
        "\"", ":", "\"", "Q", "\"", "}", "]", "}", "}", "]">>),
      Entry(<<"4", "0">>, <<"[", "0", ",", "0", ",", "0", ",", "{", "\"", "p", "r", "o", "\"", ":", "{", "\"",
        "f", "a", "c", "e", "b", "o", "o", "k", "U", "r", "l", "\"", ":", "\"", "g", "\"",
        "}", "}", "]">>),
      Entry(<<"0", "4">>, <<"[", "0", ",", "0", ",", "0", ",", "{", "\"", "p", "r", "o", "\"", ":", "{", "\"",
        "i", "n", "s", "t", "a", "g", "r", "a", "m", "U", "r", "l", "\"", ":", "\"", "j",
        "\"", "}", "}", "]">>),
      Entry(<<"4">>, <<"[", "0", ",", "0", ",", "0", ",", "{", "\"", "f", "a", "c", "e", "b", "o", "o",
        "k", "U", "r", "l", "\"", ":", "\"", "f", "\"", "}", "]">>),
      Entry(<<"4">>, <<"[", "0", ",", "0", ",", "0", ",", "{", "\"", "p", "r", "o", "\"", ":", "{", "\"",
        "i", "n", "s", "t", "a", "g", "r", "a", "m", "U", "r", "l", "\"", ":", "\"", "i",
        "\"", ",", "\"", "t", "e", "a", "m", "M", "e", "m", "b", "e", "r", "s", "\"", ":",
        "[", "{", "\"", "t", "i", "t", "l", "e", "\"", ":", "\"", "X", "\"", "}", ",", "{",
        "\"", "n", "a", "m", "e", "\"", ":", "\"", "A", "\"", ",", "\"", "t", "i", "t",
        "l", "e", "\"", ":", "\"", "P", "\"", "}", ",", "{", "\"", "n", "a", "m", "e",
        "\"", ":", "\"", "B", "\"", "}", "]", "}", "}", "]">>),
      Entry(<<"4">>, <<"[", "0", ",", "0", ",", "0", ",", "{", "\"", "p", "r", "o", "\"", ":", "{", "\"",
        "f", "a", "c", "e", "b", "o", "o", "k", "U", "r", "l", "\"", ":", "\"", "f", "\"",
        ",", "\"", "t", "e", "a", "m", "M", "e", "m", "b", "e", "r", "s", "\"", ":", "[",
        "{", "\"", "n", "a", "m", "e", "\"", ":", "\"", "A", "\"", ",", "\"", "t", "i",
        "t", "l", "e", "\"", ":", "\"", "P", "\"", "}", ",", "{", "\"", "n", "a", "m", "e",
        "\"", ":", "\"", "A", "\"", ",", "\"", "t", "i", "t", "l", "e", "\"", ":", "\"",
        "Q", "\"", "}", "]", "}", "}", "]">>),
      Entry(<<"4">>, <<"[", "0", ",", "0", ",", "0", ",", "{", "\"", "p", "r", "o", "\"", ":", "{", "\"",
        "f", "a", "c", "e", "b", "o", "o", "k", "U", "r", "l", "\"", ":", "\"", "f", "\"",
        ",", "\"", "t", "e", "a", "m", "M", "e", "m", "b", "e", "r", "s", "\"", ":", "[",
        "{", "\"", "n", "a", "m", "e", "\"", ":", "\"", "A", "\"", ",", "\"", "t", "i",
        "t", "l", "e", "\"", ":", "\"", "P", "\"", "}", ",", "7", "]", "}", "}", "]">>),
      Entry(<<"4">>, <<"[", "0", ",", "0", ",", "0", ",", "{", "\"", "p", "r", "o", "\"", ":", "{", "\"",
        "t", "e", "a", "m", "M", "e", "m", "b", "e", "r", "s", "\"", ":", "[", "{", "\"",
        "n", "a", "m", "e", "\"", ":", "\"", "B", "\"", ",", "\"", "t", "i", "t", "l", "e",
        "\"", ":", "\"", "Q", "\"", "}", ",", "{", "\"", "n", "a", "m", "e", "\"", ":",
        "\"", "A", "\"", ",", "\"", "t", "i", "t", "l", "e", "\"", ":", "\"", "P", "\"",
        "}", "]", "}", "}", "]">>),
      Entry(<<"4">>, <<"{", "\"", "3", "\"", ":", "{", "\"", "p", "r", "o", "\"", ":", "{", "\"", "f",
        "a", "c", "e", "b", "o", "o", "k", "U", "r", "l", "\"", ":", "\"", "f", "\"", "}",
        "}", "}">>),
      Entry(<<"2">>, <<"{", "\"", "@", "c", "o", "n", "t", "e", "x", "t", "\"", ":", "\"", "s", "\"", ",",
        "\"", "u", "r", "l", "\"", ":", "\"", "u", "\"", "}">>) }

ProfileLists == UNION {[1..n -> ProfileCatalog] : n \in 0..MaxEntries}

Input(family, frames, page) ==
    [family |-> family, frames |-> frames, page |-> page,
     slug |-> <<"a", "c", "m", "e">>, fetch_ok |-> TRUE]

Inputs ==
    {Input("frames", fs, PageOfBuffer(EncodeAll(fs))) : fs \in FrameLists}
    \cup {Input("buffer", <<>>, PageOfBuffer(b)) :
            b \in JunkBuffers \cup TagBuffers \cup SignatureBuffers
                 \cup {ExampleBuffer, WrapperProfileBuffer, SiteBuffer}}
    \cup {Input("page", <<>>, p) : p \in BlockPages}
    \cup {[Input("page", <<>>, <<>>) EXCEPT !.slug = <<>>],
          [Input("page", <<>>, <<>>) EXCEPT !.fetch_ok = FALSE]}

\* What get_url_data can return: the links it collected, {} when it failed.
UrlData == {EmptyDict, [links |-> PyStr(<<"i", "n">>)]}

\* Chains of JSON values for the probe: each value is followed by whitespace,
\* which is not empty between two values.
MaxChain == 2

ChainValues ==
    { <<"1">>, <<"-", "2", ".", "5", "e", "1">>, <<"\"", "a", " ", "b", "\"">>, <<"\"", "\\", "\"", "\"">>, <<"[", "1", ",", " ", "\"", "x", "\"", "]">>, <<"{", "\"", "k", "\"", ":", " ", "[", "n", "u", "l", "l", "]", "}">>, <<"t", "r", "u", "e">>, <<"N", "a", "N">> }

Separators == {<<" ">>, <<"\n", "\t">>}

Link(value, ws) == [value |-> value, ws |-> ws]

Chains ==
    UNION {[1..k -> {Link(v, w) : v \in ChainValues, w \in Separators}] :
             k \in 1..MaxChain}

\* The chain with whitespace lead before it, and its last value followed by
\* whitespace or by nothing.
ChainInputs ==
    {[family |-> "chain", lead |-> lead,
      chain |-> [c EXCEPT ![Len(c)].ws = last]] :
       lead \in {<<>>, <<" ">>}, last \in {<<>>, <<"\n">>}, c \in Chains}

ChainBuffer(in) ==
    in.lead \o Concat([i \in 1..Len(in.chain) |-> in.chain[i].value \o in.chain[i].ws])

\* The listing collect_vendors pages through and the detail pages behind it.
MaxVendors == 2

\* The slugs of the listing: none, and one per kind of detail page.
Slugs == {<<>>, <<"b">>, <<"c">>, <<"d">>, <<"e">>}

\* The detail page of a slug: b cannot be fetched, c is the example page, d a
\* page with a site url, e a page whose stream the framer raises on.
DetailOf(slug) ==
    CASE slug = <<"b">> -> [fetch_ok |-> FALSE, page |-> <<>>]
      [] slug = <<"c">> -> [fetch_ok |-> TRUE, page |-> PageOfBuffer(ExampleBuffer)]
      [] slug = <<"d">> -> [fetch_ok |-> TRUE, page |-> PageOfBuffer(SiteBuffer)]
      [] OTHER -> [fetch_ok |-> TRUE, page |-> PageOfBuffer(<<"4", ":">>)]

PageSizes == {1, 2}
Concurrencies == {1, 2}

\* A run of collect_vendors: n, the concurrency of the config, the flag
\* fetch_additional_for_each, the items the listing serves and how many per
\* page, and the page whose request fails (0 for none); start_page, and
\* whether the listing is endless, a page past the last being served as the
\* last.
CollectInput(n, concurrency, fetch_additional, items, per_page, fail_page) ==
    [family |-> "collect", n |-> n, concurrency |-> concurrency,
     fetch_additional |-> fetch_additional, items |-> items,
     per_page |-> per_page, fail_page |-> fail_page, start_page |-> 1,
     endless |-> FALSE]

CollectInputs ==
    {CollectInput(n, c, TRUE, items, pp, 0) :
       n \in 1..MaxVendors, c \in Concurrencies, pp \in PageSizes,
       items \in UNION {[1..k -> Slugs] : k \in 0..MaxVendors}}
    \cup {CollectInput(2, 1, f, <<<<"c">>, <<"d">>>>, 1, fp) : f \in BOOLEAN, fp \in 0..2}
    \cup {[CollectInput(n, 1, f, items, 1, 0) EXCEPT
              !.start_page = sp, !.endless = e] :
            n \in 0..(MaxVendors + 1), f \in BOOLEAN, sp \in 1..3, e \in BOOLEAN,
            items \in {<<>>, <<<<"d">>>>, <<<<"d">>, <<>>>>}}

\* The companies process_company is run on: records as main.py writes them to
\* the interchange file.  teamMembers maps a member's name to the title.
MaxMembers == 2

MemberNames ==
    {<<"A", "n", "n", " ", "L", "e", "e">>, <<"A", "n", "n", " ", "&", " ", "B", "o", "b">>, <<"T", "h", "e", " ", "E", "v", "e", "n", "t", "s", " ", "T", "e", "a", "m">>, <<"S", "u", "e", " ", "R", "a", "y", " ", "-", " ", "O", "w", "n", "e", "r">>, <<"O", "w", "n", "e", "r", "s">>,
     <<"J", "o", "e", " ", "a", "n", "d", " ", "A", "m", "y", " ", "L", "e", "a", "d",
        " ", "P", "l", "a", "n", "n", "e", "r", "s">>}

TitleOf(name) == IF name = <<"A", "n", "n", " ", "L", "e", "e">> THEN PyNone ELSE PyStr(<<"P", "l", "a", "n", "n", "e", "r">>)

\* The teams: at most MaxMembers members, no name twice.
Teams ==
    UNION {{m \in [1..k -> MemberNames] :
              \A i, j \in 1..k : i # j => m[i] # m[j]} : k \in 0..MaxMembers}

TeamFields ==
    {<<>>}
    \cup {<<Pair(<<"t", "e", "a", "m", "M", "e", "m", "b", "e", "r", "s">>,
                 PyDict([i \in 1..Len(m) |-> Pair(m[i], TitleOf(m[i]))]))>> :
            m \in Teams}

ExtraFields ==
    {<<>>,
     <<Pair(<<"u", "r", "l", "_", "e", "x", "t", "r", "a">>, PyDict(<<>>))>>,
     <<Pair(<<"u", "r", "l", "_", "e", "x", "t", "r", "a">>,
            PyDict(<<Pair(<<"e", "m", "a", "i", "l", "s">>, PyList(<<Item(PyStr(<<"i", "n", "f", "o", "@", "a", "c", "m", "e", ".", "c", "o">>)),
                                             Item(PyStr(<<"a", "m", "y", "@", "a", "c", "m", "e", ".", "c", "o">>))>>)),
                     Pair(<<"p", "h", "o", "n", "e", "s">>, PyList(<<Item(PyStr(<<"5", "5", "5">>))>>)),
                     Pair(<<"u", "r", "l", "s">>, PyList(<<Item(PyStr(<<"h", "t", "t", "p", "s", ":", "/", "/", "a", "c", "m", "e", ".", "c", "o", "/",
        "a", "b", "o", "u", "t">>)),
                                           Item(PyStr(<<"h", "t", "t", "p", ":", "/", "/", "w", "w", "w", ".", "I", "n", "s", "t", "a",
        "g", "r", "a", "m", ".", "c", "o", "m", "/", "a", "c", "m", "e", "/", "p">>))>>))>>))>>}

PhoneFields ==
    {<<Pair(<<"p", "h", "o", "n", "e", "_", "n", "u", "m", "b", "e", "r">>, PyNone)>>, <<Pair(<<"p", "h", "o", "n", "e", "_", "n", "u", "m", "b", "e", "r">>, PyStr(<<"7", "7", "7">>))>>}

Companies ==
    {PyDict(<<Pair(<<"n", "a", "m", "e">>, PyStr(<<"A", "c", "m", "e">>)), Pair(<<"u", "r", "l">>, PyStr(<<"h", "t", "t", "p", "s", ":", "/", "/", "a", "c", "m", "e", ".", "c", "o">>))>>
            \o phone \o extra \o team) :
       phone \in PhoneFields, extra \in ExtraFields, team \in TeamFields}

\* _fetch_and_parse_extra, lines 122-124: extra of the html fetched, html being
\* given by the blocks of its script elements.  [exc, val].
ParseExtra(html) ==
    LET Extract(frames) == IF frames.exc # "" THEN Raise(frames.exc)
                           ELSE extract_data_from_scripts(frames.val)
    IN  Extract(merge_next_f_scripts(Render(html), marker_src_substring))

\* The rows _enrich_row is called on: a website or none, under one of the
\* column names read; a contact person or none; email and phone columns.
Websites ==
    {<<"h", "t", "t", "p", "s", ":", "/", "/", "w", "w", "w", ".", "A", "c", "m", "e",
        ".", "c", "o", "m", "/", "a", "b", "o", "u", "t">>, <<"a", "c", "m", "e", ".", "c", "o", "m">>, <<"w", "w", "w", ".", "a", "c", "m", "e", ".", "c", "o", "m", ":", "8", "0", "8",
        "0", "/", "x">>, <<"h", "t", "t", "p", ":", "/", "/">>,
     <<"h", "t", "t", "p", ":", "/", "/", "[", "a", "c", "m", "e">>, <<"H", "T", "T", "P", ":", "/", "/", "A", "c", "m", "e", ".", "c", "o", "m">>, <<"/", "a", "b", "o", "u", "t">>, <<"h", "t", "t", "p", "s", ":", "/", "/", "a", "c", "m", "e", ".", "c", "o", "m",
        "?", "x", "#", "y">>, <<>>}

NoColumns == [c \in {} |-> PyNone]

WebsiteColumns ==
    {NoColumns}
    \cup {[c \in {"Website"} |-> PyStr(w)] : w \in Websites}
    \cup {[c \in {"Website", "website"} |->
             IF c = "Website" THEN PyStr(<<>>) ELSE PyStr(<<"a", "c", "m", "e", ".", "c", "o", "m">>)],
          [c \in {"Website"} |-> PyNone],
          [c \in {"Site"} |-> PyStr(<<"w", "w", "w", ".", "a", "c", "m", "e", ".", "c", "o", "m">>)]}

ContactColumns ==
    {NoColumns,
     [c \in {"Contact Person"} |-> PyStr(<<"A", "n", "n", " ", "L", "e", "e">>)],
     [c \in {"Contact Person"} |-> PyStr(<<>>)],
     [c \in {"Contact"} |-> PyStr(<<"B", "o", "b">>)],
     [c \in {"Contact Person", "contact_person"} |->
        IF c = "Contact Person" THEN PyNone ELSE PyStr(<<"C", "y">>)]}

ResultColumns ==
    {NoColumns,
     [c \in {"Email", "Phone"} |-> PyStr(<<>>)],
     [c \in {"email", "Mobile"} |->
        IF c = "email" THEN PyStr(<<"o", "l", "d", "@", "a", ".", "c", "o">>) ELSE PyStr(<<>>)]}

Rows ==
    {[c \in DOMAIN w \cup DOMAIN p \cup DOMAIN r |->
        IF c \in DOMAIN w THEN w[c] ELSE IF c \in DOMAIN p THEN p[c] ELSE r[c]] :
       w \in WebsiteColumns, p \in ContactColumns, r \in ResultColumns}

Includes == {PyNone, PyList(<<Item(PyStr(<<"p", "h", "o", "n", "e">>))>>)}

\* What manager.enrich does with a call: an exception (a subclass of
\* Exception), or the response returned.
Replies ==
    {Raise("OutOfCreditsError"), Raise("RateLimitError"), Raise("ContactOutError"),
     Raise("TimeoutError"),
     Ok(PyNone),
     Ok(PyDict(<<>>)),
     Ok(PyDict(<<Pair(<<"d", "a", "t", "a">>, PyDict(<<Pair(<<"e", "m", "a", "i", "l">>, PyStr(<<"a", "@", "b", ".", "c">>)),
                                       Pair(<<"p", "h", "o", "n", "e">>, PyStr(<<"1">>))>>))>>)),
     Ok(PyDict(<<Pair(<<"p", "r", "o", "f", "i", "l", "e">>, PyDict(<<Pair(<<"e", "m", "a", "i", "l", "s">>, PyList(<<Item(PyStr(<<"x", "@", "y", ".", "z">>))>>))>>))>>)),
     Ok(PyDict(<<Pair(<<"c", "o", "n", "t", "a", "c", "t", "s">>,
                      PyList(<<Item(PyDict(<<Pair(<<"t", "y", "p", "e">>, PyStr(<<"M", "o", "b", "i", "l", "e">>)),
                                             Pair(<<"v", "a", "l", "u", "e">>, PyStr(<<" ", "3", " ">>))>>)),
                               Item(PyNum(<<"7">>))>>))>>)),
     Ok(PyDict(<<Pair(<<"c", "o", "n", "t", "a", "c", "t", "s">>,
                      PyList(<<Item(PyDict(<<Pair(<<"t", "y", "p", "e">>, PyNum(<<"5">>)),
                                             Pair(<<"v", "a", "l", "u", "e">>, PyStr(<<"x">>))>>))>>))>>)),
     Ok(PyList(<<Item(PyStr(<<"d", "a", "t", "a">>))>>))}

Pending == [exc |-> "pending", val |-> PyNone]

\* The frame lists extract_data_from_scripts is called on more than once, and
\* the number of calls.
MaxCalls == 2

WrapperCatalog ==
    { Entry(<<"2">>, <<"{", "\"", "@", "c", "o", "n", "t", "e", "x", "t", "\"", ":", "\"", "s", "\"", ",",
        "\"", "u", "r", "l", "\"", ":", "\"", "u", "\"", "}">>),
      Entry(<<"9">>, <<"x", "{", "\"", "d", "a", "n", "g", "e", "r", "o", "u", "s", "l", "y", "S", "e",
        "t", "I", "n", "n", "e", "r", "H", "T", "M", "L", "\"", ":", "{", "\"", "_", "_",
        "h", "t", "m", "l", "\"", ":", "\"", "{", "\\", "\"", "@", "c", "o", "n", "t", "e",
        "x", "t", "\\", "\"", ":", "1", ",", "\\", "\"", "u", "r", "l", "\\", "\"", ":",
        "\\", "\"", "w", "\\", "\"", "}", "\"", "}", "}">>),
      Entry(<<"9">>, <<"{", "\"", "d", "a", "n", "g", "e", "r", "o", "u", "s", "l", "y", "S", "e", "t",
        "I", "n", "n", "e", "r", "H", "T", "M", "L", "\"", ":", "{", "\"", "_", "_", "h",
        "t", "m", "l", "\"", ":", "\"", " ", "{", "\\", "\"", "@", "c", "o", "n", "t", "e",
        "x", "t", "\\", "\"", ":", "1", ",", "\\", "\"", "u", "r", "l", "\\", "\"", ":",
        "\\", "\"", "v", "\\", "\"", "}", "\"", "}", "}">>),
      Entry(<<"8">>, <<"{", "\"", "d", "a", "n", "g", "e", "r", "o", "u", "s", "l", "y", "S", "e", "t",
        "I", "n", "n", "e", "r", "H", "T", "M", "L", "\"", ":", "{", "\"", "_", "_", "h",
        "t", "m", "l", "\"", ":", "\"", "<", "b", ">", "{", "\\", "\"", "@", "c", "o", "n",
        "t", "e", "x", "t", "\\", "\"", ":", "1", "}", "\"", "}", "}">>),
      Entry(<<"7">>, <<"{", "\"", "d", "a", "n", "g", "e", "r", "o", "u", "s", "l", "y", "S", "e", "t",
        "I", "n", "n", "e", "r", "H", "T", "M", "L", "\"", ":", "{", "\"", "_", "_", "h",
        "t", "m", "l", "\"", ":", "5", ",", "\"", "k", "\"", ":", "\"", "{", "\\", "\"",
        "@", "c", "o", "n", "t", "e", "x", "t", "\\", "\"", "\"", "}", "}">>),
      Entry(<<"4">>, <<"[", "0", ",", "0", ",", "0", ",", "{", "\"", "p", "r", "o", "\"", ":", "{", "\"",
        "f", "a", "c", "e", "b", "o", "o", "k", "U", "r", "l", "\"", ":", "\"", "f", "\"",
        "}", "}", "]">>) }

WrapperLists == UNION {[1..n -> WrapperCatalog] : n \in 0..MaxEntries}

\* ContactOutClient._request: the retries configured, and the answers of the
\* HTTP client.
MaxRetries429 == 2

NoHeaders == [h \in {} |-> <<>>]

HeaderCatalog ==
    {NoHeaders,
     [h \in {"Retry-After"} |-> <<"3">>],
     [h \in {"Retry-After"} |-> <<"0">>],
     [h \in {"Retry-After"} |-> <<"s", "o", "o", "n">>],
     [h \in {"retry-after"} |-> <<" ", "-", "2", " ">>],
     [h \in {"Retry-After", "Server"} |-> IF h = "Server" THEN <<"n", "g", "i", "n", "x">> ELSE <<>>]}

\* What one call of HTTPClient._request_with_retries and resp.json() comes to:
\* the JSON ("json"), a ClientResponseError ("cre") with its status, headers
\* and str(), or another exception ("exc"), error its class.
Answer(kind, status, hdrs, msg) ==
    [kind |-> kind, status |-> status, headers |-> hdrs, msg |-> msg,
     error |-> IF kind = "cre" THEN "ClientResponseError" ELSE ""]

Failure(error) ==
    [kind |-> "exc", status |-> 0, headers |-> NoHeaders, msg |-> <<>>,
     error |-> error]

Answers ==
    {Answer("json", 200, NoHeaders, <<>>)}
    \cup {Answer("cre", 429, hdrs, <<"4", "2", "9", ",", " ", "m", "e", "s", "s", "a", "g", "e", "=", "'", "T", "o",
        "o", " ", "M", "a", "n", "y", " ", "R", "e", "q", "u", "e", "s", "t", "s", "'">>) :
            hdrs \in HeaderCatalog}
    \cup {Answer("cre", 400, NoHeaders, <<"4", "0", "0", ",", " ", "m", "e", "s", "s", "a", "g", "e", "=", "'", "B", "a",
        "d", " ", "R", "e", "q", "u", "e", "s", "t", "'">>),
          Answer("cre", 401, NoHeaders, <<"4", "0", "1", ",", " ", "m", "e", "s", "s", "a", "g", "e", "=", "'", "U", "n",
        "a", "u", "t", "h", "o", "r", "i", "z", "e", "d", "'">>),
          Answer("cre", 403, NoHeaders, <<"4", "0", "3", ",", " ", "m", "e", "s", "s", "a", "g", "e", "=", "'", "O", "u",
        "t", " ", "O", "f", " ", "C", "r", "e", "d", "i", "t", "s", "'">>),
          Answer("cre", 403, NoHeaders, <<"4", "0", "3", ",", " ", "m", "e", "s", "s", "a", "g", "e", "=", "'", "F", "o",
        "r", "b", "i", "d", "d", "e", "n", "'">>),
          Answer("cre", 404, [h \in {"Retry-After"} |-> <<"3">>], <<"4", "0", "4", ",", " ", "m", "e", "s", "s", "a", "g", "e", "=", "'", "N", "o",
        "t", " ", "F", "o", "u", "n", "d", "'">>),
          Answer("cre", 500, NoHeaders, <<"5", "0", "0", ",", " ", "m", "e", "s", "s", "a", "g", "e", "=", "'", "I", "n",
        "t", "e", "r", "n", "a", "l", " ", "S", "e", "r", "v", "e", "r", " ", "E", "r",
        "r", "o", "r", "'">>),
          Answer("cre", 599, NoHeaders, <<"5", "9", "9", ",", " ", "m", "e", "s", "s", "a", "g", "e", "=", "'", "'">>),
          Answer("cre", 600, NoHeaders, <<"6", "0", "0", ",", " ", "m", "e", "s", "s", "a", "g", "e", "=", "'", "'">>),
          Answer("cre", 200, NoHeaders, <<"2", "0", "0", ",", " ", "m", "e", "s", "s", "a", "g", "e", "=", "'", "A", "t",
        "t", "e", "m", "p", "t", " ", "t", "o", " ", "d", "e", "c", "o", "d", "e", " ",
        "J", "S", "O", "N", "'">>),
          Failure("ClientConnectorDNSError"),
          Failure("TimeoutError")}

RequestInputs ==
    [max_retries_on_429 : 0..MaxRetries429, backoff_factor : {1},
     started : BOOLEAN]

\* ContactOutTokenManager: the tokens, the calls of enrich in flight, the
\* nesting of calls the interpreter allows (sys.getrecursionlimit(), scaled
\* down to the levels of enrich), and what the API answers.
MaxInFlight == 2

RecursionLimit == 3

Calls == 1..MaxInFlight

Tokens == <<"t1", "t2">>

ManagerPayloads ==
    {[full_name |-> "A", include |-> <<"work_email", "personal_email", "phone">>],
     [full_name |-> "B", linkedin_url |-> "in/b", include |-> <<"phone">>]}

Usage(d) == [k \in {"usage"} |-> d]

StatsCatalog ==
    {<<>>,
     Usage([remaining |-> 1, phone_quota |-> 1, search_remaining |-> 1])}

EnrichResults == {"r1", None}

EnrichErrors ==
    {"OutOfCreditsError", "NoAccessError", "RateLimitError"}

StatsErrors == {"RemoteServerError"}

InitialCaches ==
    {<<>>,
     CacheSet(<<>>, "POST", "/people/enrich",
              [full_name |-> "A",
               include |-> <<"work_email", "personal_email", "phone">>], "r0")}

\* process_csv: the rows of the input file and the concurrency.  A row has
\* the column id, its position in the file, besides the columns of its kind:
\* a website and a contact person; nothing in either; the website under Site,
\* which process_csv does not look at; a website without a domain.
MaxRows == 3

CsvRowCatalog ==
    {[c \in {"Website", "Contact Person"} |->
        IF c = "Website" THEN PyStr(<<"a", "c", "m", "e", ".", "c", "o", "m">>) ELSE PyStr(<<"A", "n", "n", " ", "L", "e", "e">>)],
     [c \in {"Website", "Contact Person"} |-> PyStr(<<>>)],
     [c \in {"Site", "Contact Person"} |->
        IF c = "Site" THEN PyStr(<<"w", "w", "w", ".", "a", "c", "m", "e", ".", "c", "o", "m">>) ELSE PyStr(<<"A", "n", "n", " ", "L", "e", "e">>)],
     [c \in {"Website", "Contact"} |->
        IF c = "Website" THEN PyStr(<<"h", "t", "t", "p", ":", "/", "/">>) ELSE PyStr(<<"B", "o", "b">>)]}

WithId(row, i) ==
    [c \in DOMAIN row \cup {"id"} |-> IF c = "id" THEN PyStr(ToHex(i)) ELSE row[c]]

CsvFiles ==
    UNION {{[i \in 1..k |-> WithId(f[i], i)] : f \in [1..k -> CsvRowCatalog]} :
             k \in 0..MaxRows}

CsvReplies ==
    {Raise("RateLimitError"),
     Ok(PyDict(<<Pair(<<"d", "a", "t", "a">>, PyDict(<<Pair(<<"e", "m", "a", "i", "l">>, PyStr(<<"a", "@", "b", ".", "c">>))>>))>>)),
     Ok(PyList(<<Item(PyStr(<<"d", "a", "t", "a">>))>>))}

\* HTTPClient._request_with_retries: the url asked for, the client's
\* whitelist and max_retries, and whether the session was started.  The urls
\* are ones a session can request (the port, when given, is a port number).
MaxRetries == 3

HttpUrls ==
    {<<"h", "t", "t", "p", "s", ":", "/", "/", "w", "w", "w", ".", "a", ".", "i", "o",
        "/", "x">>,
     <<"h", "t", "t", "p", "s", ":", "/", "/", "a", ".", "i", "o", "/", "x">>,
     <<"H", "T", "T", "P", "S", ":", "/", "/", "u", "@", "W", "W", "W", ".", "a", ".",
        "i", "o", ":", "0", "4", "4", "3", "/", "x", "?", "q", "=", "1">>,
     <<"h", "t", "t", "p", "s", ":", "/", "/", "b", ".", "i", "o", ":", "8", "/">>}

HttpWhitelists ==
    {{},
     {<<"w", "w", "w", ".", "a", ".", "i", "o">>},
     {<<"a", ".", "i", "o">>, <<"b", ".", "i", "o">>}}

HttpAnswers ==
    {"ok", "ClientConnectorDNSError", "ClientConnectorCertificateError",
     "ClientResponseError"}

HttpInputs ==
    [url : HttpUrls, insecure_whitelist : HttpWhitelists,
     max_retries : 0..MaxRetries, started : BOOLEAN]

\* optdefer: the calls a body makes, how many (MaxScheduled, which also
\* bounds the batches at the call of an execution_context function), and how
\* deep the ExecutionContext blocks and the execution_context functions nest.
MaxScheduled == 3

MaxNesting == 3

DeferCatalog ==
    {DeferredCall("f", 1, <<>>), DeferredCall("f", 2, <<>>),
     DeferredCall("f", 1, <<7>>), DeferredCall("again", 1, <<>>),
     DeferredCall("boom", 1, <<>>)}

(***************************************************************************)
(* The state: one call of _fetch_and_parse_extra(v) in collect_vendors     *)
(* (client.py, lines 116-130) and the to_dict of its vendor (line 153).    *)
(***************************************************************************)
VARIABLES
    input,          \* the vendor page served (not program state)
    pc,             \* where the call is
    vendor,         \* v: the Vendor
    script_tags,    \* scripts = extract_script_tags(html)
    marker_index,   \* merge_next_f_scripts: marker_index, -1 for None
    tag_i,          \* the tag the loop of line 29 is at (0-based)
    raw_items,      \* raw_items
    parsed_items,   \* parsed_items
    item_i,         \* the item the loop of line 43 is at (1-based)
    combined,       \* combined
    other,          \* other: the remaining buffer
    data,           \* data: the entries built so far
    spans,          \* per entry, the positions in combined it was cut at
    parsed,         \* the caller's parsed / script_entries: [bound, val]
    out,            \* extract_data_from_scripts: out
    exc,            \* the exception in flight, "" for none
    escaped,        \* the exception that left _fetch_and_parse_extra, "" for none
    output,         \* collect_vendors: output, <<>> until it is built
    collected,      \* collect_vendors: collected
    page,           \* collect_vendors: page
    tasks,          \* the tasks of the gather under way: [v, pc, extra]
    permits,        \* semaphore: the permits left
    fetches,        \* per collected vendor, the detail-page fetches started
    requests,       \* _enrich_row: the calls of manager.enrich, [payload, reply]
    attempt,        \* _request, _request_with_retries: attempt
    last_exc,       \* _request, _request_with_retries: last_exc, "" for None
    retry_after,    \* _request: retry_after, <<>> for None, <<n>> for the int n
    sleep_for,      \* the asyncio.sleep under way, <<>> for none
    sent,           \* the requests sent so far and what each was answered
    returns,        \* what the calls before this one returned
    calls,          \* ContactOutTokenManager.enrich: the calls in flight
    quotas,         \* ContactOutTokenManager._quotas
    cache,          \* DiskCache._data
    enriched_rows,  \* process_csv: enriched_rows
    depth,          \* ExecutionContext._depth
    batches,        \* optdefer.runtime: batches, <<>> while unset
    current_batch,  \* optdefer.runtime: current_batch, "None" for None
    batch_blocked,  \* optdefer.runtime: batch_blocked
    results_cache,  \* optdefer.runtime: results_cache, the calls it holds
    ran             \* the wrapped functions run so far, as [func, args]

vars == <<input, pc, vendor, script_tags, marker_index, tag_i, raw_items,
          parsed_items, item_i, combined, other, data, spans, parsed, out,
          exc, escaped, output, collected, page, tasks, permits, fetches,
          requests, attempt, last_exc, retry_after, sleep_for, sent, returns,
          calls, quotas, cache, enriched_rows, depth, batches, current_batch,
          batch_blocked, results_cache, ran>>

collectVars == <<collected, page, tasks, permits, fetches>>

\* The variables of the calls outside core/partyslate and _enrich_row.
managerVars == <<calls, quotas, cache>>

deferVars ==
    <<depth, batches, current_batch, batch_blocked, results_cache, ran>>

restVars == <<enriched_rows, deferVars>>

laterVars ==
    <<attempt, last_exc, retry_after, sleep_for, sent, returns, managerVars,
      restVars>>

\* Neither process_csv nor an ExecutionContext is under way.
NoRest ==
    /\ enriched_rows = <<>>
    /\ depth = 0
    /\ batches = <<>>
    /\ current_batch = <<>>
    /\ batch_blocked = FALSE
    /\ results_cache = {}
    /\ ran = <<>>

\* None of those calls is under way.
NoLater ==
    /\ attempt = 0
    /\ last_exc = ""
    /\ retry_after = <<>>
    /\ sleep_for = <<>>
    /\ sent = <<>>
    /\ returns = <<>>
    /\ calls = <<>>
    /\ quotas = <<>>
    /\ cache = <<>>
    /\ NoRest

\* No collect_vendors loop is under way.
NoCollect ==
    /\ collected = <<>>
    /\ page = 1
    /\ tasks = <<>>
    /\ permits = 0
    /\ fetches = <<>>

mergeVars == <<marker_index, tag_i, raw_items, parsed_items, item_i, combined,
               other, data, spans>>

Unbound == [bound |-> FALSE, val |-> <<>>]
Bound(v) == [bound |-> TRUE, val |-> v]

NewVendor(slug) ==
    [slug |-> PyStr(slug), name |-> PyStr(<<"A", "c", "m", "e">>), phone_number |-> PyNone,
     minimum_spend |-> PyNone, extra |-> EmptyDict, url_extra |-> EmptyDict]

InitLocals ==
    /\ script_tags = <<>>
    /\ marker_index = -1
    /\ tag_i = 0
    /\ raw_items = <<>>
    /\ parsed_items = <<>>
    /\ item_i = 1
    /\ combined = <<>>
    /\ other = <<>>
    /\ data = <<>>
    /\ spans = <<>>
    /\ out = EmptyDict
    /\ exc = ""
    /\ escaped = ""
    /\ output = <<>>

Init ==
    /\ input \in Inputs
    /\ pc = "start"
    /\ vendor = NewVendor(input.slug)
    /\ parsed = Unbound
    /\ InitLocals
    /\ NoCollect
    /\ requests = <<>>
    /\ NoLater

\* Lines 117-122: no slug, no fetch; else the page is fetched and its script
\* tags extracted (get_vendor_html raises when the fetch fails).
Begin ==
    /\ pc = "start"
    /\ IF ~Truthy(vendor.slug)
       THEN pc' = "done" /\ UNCHANGED <<script_tags, exc>>
       ELSE IF ~input.fetch_ok
       THEN pc' = "raised" /\ exc' = "ClientError" /\ UNCHANGED script_tags
       ELSE pc' = "marker" /\ script_tags' = Render(input.page) /\ UNCHANGED exc
    /\ UNCHANGED <<input, vendor, mergeVars, parsed, out, escaped, output>>
    /\ UNCHANGED <<collectVars, requests, laterVars>>

\* merge_next_f_scripts, lines 17-28: find the marker; return [] without it.
FindMarker ==
    /\ pc = "marker"
    /\ marker_index' = MarkerIndex(script_tags, marker_src_substring)
    /\ tag_i' = marker_index' + 1
    /\ IF marker_index' = -1
       THEN pc' = "site" /\ parsed' = Bound(<<>>)
       ELSE /\ pc' = IF tag_i' < Len(script_tags) THEN "scan" ELSE "frame"
            /\ UNCHANGED parsed
    /\ UNCHANGED <<input, vendor, script_tags, raw_items, parsed_items, item_i,
                   combined, other, data, spans, out, exc, escaped, output>>
    /\ UNCHANGED <<collectVars, requests, laterVars>>

\* Lines 29-36, one tag: the push literals of its text.
ScanBlock ==
    /\ pc = "scan"
    /\ raw_items' = raw_items \o FindAllPush(script_tags[tag_i + 1].text, 0)
    /\ tag_i' = tag_i + 1
    /\ pc' = IF tag_i' < Len(script_tags) THEN "scan"
             ELSE IF raw_items' = <<>> THEN "frame" ELSE "parse"
    /\ UNCHANGED <<input, vendor, script_tags, marker_index, parsed_items,
                   item_i, combined, other, data, spans, parsed, out, exc,
                   escaped, output>>
    /\ UNCHANGED <<collectVars, requests, laterVars>>

\* Lines 38-40, one literal: json.loads(raw), which may raise.
ParseItem ==
    /\ pc = "parse"
    /\ \E r \in {JsonLoads(raw_items[Len(parsed_items) + 1])} :
           IF ~r.ok
           THEN pc' = "raised" /\ exc' = "JSONDecodeError" /\ UNCHANGED parsed_items
           ELSE /\ parsed_items' = Append(parsed_items, r.val)
                /\ pc' = IF Len(parsed_items') < Len(raw_items) THEN "parse"
                         ELSE "combine"
                /\ UNCHANGED exc
    /\ UNCHANGED <<input, vendor, script_tags, marker_index, tag_i, raw_items,
                   item_i, combined, other, data, spans, parsed, out, escaped,
                   output>>
    /\ UNCHANGED <<collectVars, requests, laterVars>>

\* Lines 42-48, one item: tp, data = item; combined += data when tp == 1.
\* After the last item other = combined.
CombineItem ==
    /\ pc = "combine"
    /\ \E r \in {CombineOne(combined, parsed_items[item_i])} :
           IF r.exc # ""
           THEN pc' = "raised" /\ exc' = r.exc /\ UNCHANGED <<combined, item_i>>
           ELSE /\ combined' = r.combined
                /\ item_i' = item_i + 1
                /\ pc' = IF item_i' <= Len(parsed_items) THEN "combine" ELSE "frame"
                /\ UNCHANGED exc
    /\ other' = IF pc' = "frame" THEN combined' ELSE other
    /\ UNCHANGED <<input, vendor, script_tags, marker_index, tag_i, raw_items,
                   parsed_items, data, spans, parsed, out, escaped, output>>
    /\ UNCHANGED <<collectVars, requests, laterVars>>

\* The positions in combined of one pass of the framer: where the pass began,
\* where its value began and ended, where the next pass begins.
Span(r) ==
    [start |-> Len(combined) - Len(other),
     vstart |-> Len(combined) - Len(r.backup),
     vend |-> Len(combined) - Len(r.backup) + Len(r.entry.val.s),
     next |-> Len(combined) - Len(r.other)]

\* merge_next_f_scripts, lines 52-110: one pass of the while loop.  A pass
\* that breaks returns data; get_obj_length raising leaves the function.
FrameStep ==
    /\ pc = "frame"
    /\ \E r \in {FrameIter(other)} :
           CASE r.kind = "stop" ->
                  /\ pc' = "site"
                  /\ parsed' = Bound(data)
                  /\ UNCHANGED <<other, data, spans, exc>>
             [] r.kind = "raise" ->
                  /\ pc' = "raised"
                  /\ exc' = "JSONDecodeError"
                  /\ UNCHANGED <<other, data, spans, parsed>>
             [] OTHER ->
                  /\ data' = Append(data, r.entry)
                  /\ spans' = Append(spans, Span(r))
                  /\ other' = r.other
                  /\ IF Len(r.other) = 0
                     THEN pc' = "site" /\ parsed' = Bound(data')
                     ELSE pc' = "frame" /\ UNCHANGED parsed
                  /\ UNCHANGED exc
    /\ UNCHANGED <<input, vendor, script_tags, marker_index, tag_i, raw_items,
                   parsed_items, item_i, combined, out, escaped, output>>
    /\ UNCHANGED <<collectVars, requests, laterVars>>

\* extract_data_from_scripts, lines 44-56: the site-metadata lookup.
SiteLookup ==
    /\ pc = "site"
    /\ \E r \in {SiteBody(parsed.val, EmptyDict)} :
           /\ out' = r.out
           /\ parsed' = Bound(r.scripts)
           /\ exc' = ExceptDebug(r.exc)
           /\ pc' = IF exc' = "" THEN "profile" ELSE "raised"
    /\ UNCHANGED <<input, vendor, script_tags, mergeVars, escaped, output>>
    /\ UNCHANGED <<collectVars, requests, laterVars>>

\* extract_data_from_scripts, lines 58-74: the profile lookup, and return out.
ProfileLookup ==
    /\ pc = "profile"
    /\ \E r \in {ProfileBody(parsed.val, out)} :
           /\ out' = r.out
           /\ exc' = ExceptDebug(r.exc)
           /\ pc' = IF exc' = "" THEN "extracted" ELSE "raised"
    /\ UNCHANGED <<input, vendor, script_tags, mergeVars, parsed, escaped, output>>
    /\ UNCHANGED <<collectVars, requests, laterVars>>

\* _fetch_and_parse_extra, lines 123-128: extra = out; the url's data when
\* there is a url; v.extra = extra.
Assign ==
    /\ pc = "extracted"
    /\ \E d \in UrlData :
          vendor' = [vendor EXCEPT
                       !.url_extra = IF "url" \in DOMAIN out THEN d ELSE @,
                       !.extra = out]
    /\ pc' = "done"
    /\ UNCHANGED <<input, script_tags, mergeVars, parsed, out, exc, escaped, output>>
    /\ UNCHANGED <<collectVars, requests, laterVars>>

\* Lines 129-130: except Exception: log.debug(...).
FetchExcept ==
    /\ pc = "raised"
    /\ escaped' = ExceptDebug(exc)
    /\ exc' = ""
    /\ pc' = "done"
    /\ UNCHANGED <<input, vendor, script_tags, mergeVars, parsed, out, output>>
    /\ UNCHANGED <<collectVars, requests, laterVars>>

\* Vendor.to_dict (models.py, lines 69-73).
to_dict(v) ==
    LET d == [slug |-> v.slug, name |-> v.name, phone_number |-> v.phone_number,
              minimum_spend |-> v.minimum_spend, url_extra |-> v.url_extra]
    IN  [x \in DOMAIN d \cup DOMAIN v.extra |->
            IF x \in DOMAIN v.extra THEN v.extra[x] ELSE d[x]]

\* collect_vendors, line 153: output = [v.to_dict() ...], when no call raised.
Output ==
    /\ pc = "done"
    /\ escaped = ""
    /\ output' = to_dict(vendor)
    /\ pc' = "returned"
    /\ UNCHANGED <<input, vendor, script_tags, mergeVars, parsed, out, exc, escaped>>
    /\ UNCHANGED <<collectVars, requests, laterVars>>

Next ==
    \/ Begin
    \/ FindMarker
    \/ ScanBlock
    \/ ParseItem
    \/ CombineItem
    \/ FrameStep
    \/ SiteLookup
    \/ ProfileLookup
    \/ Assign
    \/ FetchExcept
    \/ Output

Spec == Init /\ [][Next]_vars

\* extract_data_from_scripts called on a frame list of its own: the state when
\* merge_next_f_scripts has returned the list.
InitExtract ==
    /\ input = Input("entries", <<>>, <<>>)
    /\ pc = "site"
    /\ vendor = NewVendor(input.slug)
    /\ \E es \in EntryLists :
          /\ parsed = Bound(es)
          /\ data = es
    /\ script_tags = <<>>
    /\ marker_index = -1
    /\ tag_i = 0
    /\ raw_items = <<>>
    /\ parsed_items = <<>>
    /\ item_i = 1
    /\ combined = <<>>
    /\ other = <<>>
    /\ spans = <<>>
    /\ out = EmptyDict
    /\ exc = ""
    /\ escaped = ""
    /\ output = <<>>
    /\ NoCollect
    /\ requests = <<>>
    /\ NoLater

NextExtract ==
    \/ SiteLookup
    \/ ProfileLookup

SpecExtract == InitExtract /\ [][NextExtract]_vars

\* extract_data_from_scripts called on the frame lists of the profile lookup.
InitProfile ==
    /\ input = Input("entries", <<>>, <<>>)
    /\ pc = "site"
    /\ vendor = NewVendor(input.slug)
    /\ \E es \in ProfileLists :
          /\ parsed = Bound(es)
          /\ data = es
    /\ script_tags = <<>>
    /\ marker_index = -1
    /\ tag_i = 0
    /\ raw_items = <<>>
    /\ parsed_items = <<>>
    /\ item_i = 1
    /\ combined = <<>>
    /\ other = <<>>
    /\ spans = <<>>
    /\ out = EmptyDict
    /\ exc = ""
    /\ escaped = ""
    /\ output = <<>>
    /\ NoCollect
    /\ requests = <<>>
    /\ NoLater

SpecProfile == InitProfile /\ [][NextExtract]_vars

\* The framing loop of merge_next_f_scripts (lines 50-110) by itself, on a
\* combined buffer; the loop runs on once it is entered.
InitFrame ==
    /\ combined \in FrameBuffers
    /\ input = Input("buffer", <<>>, PageOfBuffer(combined))
    /\ pc = "frame"
    /\ vendor = NewVendor(input.slug)
    /\ parsed = Unbound
    /\ script_tags = <<>>
    /\ marker_index = -1
    /\ tag_i = 0
    /\ raw_items = <<>>
    /\ parsed_items = <<>>
    /\ item_i = 1
    /\ other = combined
    /\ data = <<>>
    /\ spans = <<>>
    /\ out = EmptyDict
    /\ exc = ""
    /\ escaped = ""
    /\ output = <<>>
    /\ NoCollect
    /\ requests = <<>>
    /\ NoLater

NextFrame == FrameStep

\* Weak fairness of the pass: the code is synchronous, a loop that can make a
\* pass makes it.  A pass is enabled exactly when pc = "frame", and it changes
\* pc or other, so the condition is written with that state predicate.
FairFrame == []<>(pc # "frame") \/ []<><<FrameStep>>_vars

SpecFrame == InitFrame /\ [][NextFrame]_vars /\ FairFrame

(***************************************************************************)
(* collect_vendors (client.py, lines 111-161): the paging loop, and the    *)
(* tasks of _fetch_and_parse_extra it gathers after each listing page.  A  *)
(* task's pc is new, waiting (for a permit), fetching (get_vendor_html),   *)
(* url (get_url_data), done, or raised.                                    *)
(***************************************************************************)
callVars == <<vendor, script_tags, mergeVars, parsed, out, exc>>

InitCollect ==
    /\ input \in CollectInputs
    /\ pc = "list"
    /\ vendor = NewVendor(<<>>)
    /\ parsed = Unbound
    /\ InitLocals
    /\ collected = <<>>
    /\ page = input.start_page
    /\ tasks = <<>>
    /\ permits = input.concurrency
    /\ fetches = <<>>
    /\ requests = <<>>
    /\ NoLater

\* get_find_vendors(page)["vendors"]: the items of one page of the listing.
ListingPage(p) ==
    LET Served(q) ==
          SubSeq(input.items, (q - 1) * input.per_page + 1,
                 IF q * input.per_page < Len(input.items) THEN q * input.per_page
                 ELSE Len(input.items))
        LastPage == (Len(input.items) + input.per_page - 1) \div input.per_page
    IN  Served(IF input.endless /\ p > LastPage /\ LastPage > 0 THEN LastPage ELSE p)

Task(v) == [v |-> v, pc |-> "new", extra |-> EmptyDict]

\* Line 147: a task for each collected vendor whose extra is empty.
NewTasks(vs) ==
    LET RECURSIVE From1(_)
        From1(i) == IF i > Len(vs) THEN <<>>
                    ELSE (IF DOMAIN vs[i].extra = {} THEN <<Task(i)>> ELSE <<>>)
                         \o From1(i + 1)
    IN  From1(1)

\* A loop that appends every vendor of the page.
TakenAll(vendors, n, have) == Len(vendors)

\* Lines 140-143: how many vendors of the page the for loop appends before
\* len(collected) >= n breaks it.
Taken(vendors, n, have) == Min({Len(vendors), n - have})

\* Lines 132-151, one pass of the while loop up to its await: the listing page
\* is requested; no vendors breaks the loop; else vendors are collected up to
\* n and, with fetch_additional_for_each, the tasks are created.
Listing ==
    /\ pc = "list"
    /\ Len(collected) < input.n
    /\ IF input.fail_page = page
       THEN /\ pc' = "raised"
            /\ escaped' = "ClientError"
            /\ UNCHANGED <<collected, page, tasks, fetches>>
       ELSE \E vendors \in {ListingPage(page)} :
              IF ~Truthy(PyList(vendors))
              THEN /\ pc' = "break"
                   /\ UNCHANGED <<collected, page, tasks, fetches, escaped>>
              ELSE /\ collected' =
                        collected \o
                        [i \in 1..Taken(vendors, input.n, Len(collected)) |->
                            NewVendor(vendors[i])]
                   /\ fetches' = fetches \o [i \in 1..(Len(collected') - Len(collected)) |-> 0]
                   /\ tasks' = IF input.fetch_additional THEN NewTasks(collected')
                               ELSE <<>>
                   /\ IF tasks' # <<>>
                      THEN pc' = "gather" /\ UNCHANGED page
                      ELSE pc' = "list" /\ page' = page + 1
                   /\ UNCHANGED escaped
    /\ sent' = Append(sent, page)
    /\ UNCHANGED <<input, requests, callVars, output, permits>>
    /\ UNCHANGED <<attempt, last_exc, retry_after, sleep_for, returns, managerVars,
                   restVars>>

\* Lines 117-121, a task's first run: no slug, return; else the permit is
\* taken when one is left and get_vendor_html is awaited, or the task waits.
TaskStart(t) ==
    /\ pc \in {"gather", "raised"}
    /\ tasks[t].pc = "new"
    /\ IF ~Truthy(collected[tasks[t].v].slug)
       THEN /\ tasks' = [tasks EXCEPT ![t].pc = "done"]
            /\ UNCHANGED <<permits, fetches>>
       ELSE IF permits > 0
       THEN /\ tasks' = [tasks EXCEPT ![t].pc = "fetching"]
            /\ permits' = permits - 1
            /\ fetches' = [fetches EXCEPT ![tasks[t].v] = @ + 1]
       ELSE /\ tasks' = [tasks EXCEPT ![t].pc = "waiting"]
            /\ UNCHANGED <<permits, fetches>>
    /\ UNCHANGED <<input, requests, laterVars, pc, callVars, escaped, output, collected, page>>

\* Lines 119-121: a waiting task is given a permit and awaits get_vendor_html.
Acquire(t) ==
    /\ pc \in {"gather", "raised"}
    /\ tasks[t].pc = "waiting"
    /\ permits > 0
    /\ tasks' = [tasks EXCEPT ![t].pc = "fetching"]
    /\ permits' = permits - 1
    /\ fetches' = [fetches EXCEPT ![tasks[t].v] = @ + 1]
    /\ UNCHANGED <<input, requests, laterVars, pc, callVars, escaped, output, collected, page>>

\* Lines 121-130: get_vendor_html returns or raises; the page is parsed; with a
\* url in extra, get_url_data is awaited, else v.extra = extra; an exception is
\* logged and the permit released.
FetchDone(t) ==
    /\ pc \in {"gather", "raised"}
    /\ tasks[t].pc = "fetching"
    /\ \E detail \in {DetailOf(collected[tasks[t].v].slug.s)} :
       \E r \in {IF detail.fetch_ok THEN ParseExtra(detail.page)
                 ELSE Raise("ClientError")} :
          IF r.exc # ""
          THEN /\ tasks' = [tasks EXCEPT
                              ![t].pc = IF ExceptDebug(r.exc) = "" THEN "done"
                                        ELSE "raised"]
               /\ permits' = SemaphoreExit(permits, r.exc)
               /\ UNCHANGED collected
          ELSE IF "url" \in DOMAIN r.val
          THEN /\ tasks' = [tasks EXCEPT ![t].pc = "url", ![t].extra = r.val]
               /\ UNCHANGED <<permits, collected>>
          ELSE /\ tasks' = [tasks EXCEPT ![t].pc = "done"]
               /\ collected' = [collected EXCEPT ![tasks[t].v].extra = r.val]
               /\ permits' = SemaphoreExit(permits, "")
    /\ UNCHANGED <<input, requests, laterVars, pc, callVars, escaped, output, page, fetches>>

\* Lines 126-128: get_url_data returned; v.url_extra = data; v.extra = extra.
UrlDone(t) ==
    /\ pc \in {"gather", "raised"}
    /\ tasks[t].pc = "url"
    /\ \E d \in UrlData :
          collected' = [collected EXCEPT ![tasks[t].v].url_extra = d,
                                          ![tasks[t].v].extra = tasks[t].extra]
    /\ tasks' = [tasks EXCEPT ![t].pc = "done"]
    /\ permits' = SemaphoreExit(permits, "")
    /\ UNCHANGED <<input, requests, laterVars, pc, callVars, escaped, output, page, fetches>>

\* Lines 149-151: gather returns when every task is done, and raises the
\* exception of a task that raised; page += 1.
Gathered ==
    /\ pc = "gather"
    /\ \E raised \in {{t \in 1..Len(tasks) : tasks[t].pc = "raised"}} :
          IF raised # {}
          THEN /\ pc' = "raised"
               /\ escaped' = "Exception"
               /\ UNCHANGED <<tasks, page>>
          ELSE /\ \A t \in 1..Len(tasks) : tasks[t].pc = "done"
               /\ pc' = "list"
               /\ tasks' = <<>>
               /\ page' = page + 1
               /\ UNCHANGED escaped
    /\ UNCHANGED <<input, requests, laterVars, callVars, output, collected, permits, fetches>>

\* Lines 153-161: output = [v.to_dict() for v in collected[:n]], returned.
Return ==
    /\ pc = "break" \/ (pc = "list" /\ Len(collected) >= input.n)
    /\ output' = [i \in 1..Min({Len(collected), input.n}) |-> to_dict(collected[i])]
    /\ pc' = "returned"
    /\ UNCHANGED <<input, requests, laterVars, callVars, escaped, collected, page, tasks, permits,
                   fetches>>

NextCollect ==
    \/ Listing
    \/ \E t \in 1..Len(tasks) : TaskStart(t)
    \/ \E t \in 1..Len(tasks) : Acquire(t)
    \/ \E t \in 1..Len(tasks) : FetchDone(t)
    \/ \E t \in 1..Len(tasks) : UrlDone(t)
    \/ Gathered
    \/ Return

SpecCollect == InitCollect /\ [][NextCollect]_vars

\* A task that can take a step: every task but one that is done, has raised
\* or waits while no permit is left.
CanRun(t) ==
    \/ tasks[t].pc \in {"new", "fetching", "url"}
    \/ tasks[t].pc = "waiting" /\ permits > 0

\* No step of collect_vendors or of its tasks is possible.
CollectIdle ==
    \/ pc = "returned"
    \/ /\ pc \in {"gather", "raised"}
       /\ \A t \in 1..Len(tasks) : ~CanRun(t)
       /\ pc = "gather" =>
             /\ \A t \in 1..Len(tasks) : tasks[t].pc # "raised"
             /\ \E t \in 1..Len(tasks) : tasks[t].pc # "done"

\* Weak fairness of NextCollect: the event loop runs a task that can run,
\* every request is answered, and the paging loop goes on when its await is
\* over.  A step is possible exactly when CollectIdle is false.
FairCollect == []<>CollectIdle \/ []<><<NextCollect>>_vars

SpecCollectFair == SpecCollect /\ FairCollect

(***************************************************************************)
(* LenientJSONDecoder.get_obj_length applied again and again to a buffer,  *)
(* the prefix it consumed removed each time (models.py, lines 13-16).      *)
(***************************************************************************)
InitProbe ==
    /\ input \in ChainInputs
    /\ pc = "probe"
    /\ vendor = NewVendor(<<>>)
    /\ parsed = Unbound
    /\ script_tags = <<>>
    /\ marker_index = -1
    /\ tag_i = 0
    /\ raw_items = <<>>
    /\ parsed_items = <<>>
    /\ item_i = 1
    /\ combined = ChainBuffer(input)
    /\ other = combined
    /\ data = <<>>
    /\ spans = <<>>
    /\ out = EmptyDict
    /\ exc = ""
    /\ escaped = ""
    /\ output = <<>>
    /\ NoCollect
    /\ requests = <<>>
    /\ NoLater

\* One probe of the remaining buffer: the consumed prefix is removed, or the
\* probe raises.
Probe ==
    /\ pc = "probe"
    /\ \E r \in {GetObjLength(other)} :
          IF ~r.ok
          THEN /\ pc' = "raised"
               /\ exc' = "JSONDecodeError"
               /\ UNCHANGED <<other, spans>>
          ELSE /\ other' = From(other, r.end)
               /\ spans' = Append(spans,
                                  [start |-> Len(combined) - Len(other),
                                   vstart |-> Len(combined) - Len(other),
                                   vend |-> Len(combined) - Len(other) + r.end,
                                   next |-> Len(combined) - Len(other')])
               /\ pc' = IF other' = <<>> THEN "done" ELSE "probe"
               /\ UNCHANGED exc
    /\ UNCHANGED <<input, vendor, script_tags, marker_index, tag_i, raw_items,
                   parsed_items, item_i, combined, data, parsed, out, escaped,
                   output, collectVars, requests, laterVars>>

NextProbe == Probe

SpecProbe == InitProbe /\ [][NextProbe]_vars

(***************************************************************************)
(* One call of process_company(company), as run makes it for each company  *)
(* of the interchange file (compose.py, line 186).                         *)
(***************************************************************************)
InitCompose ==
    /\ input \in Companies
    /\ pc = "company"
    /\ vendor = NewVendor(<<>>)
    /\ parsed = Unbound
    /\ InitLocals
    /\ NoCollect
    /\ requests = <<>>
    /\ NoLater

\* all_rows.extend(process_company(company)): output holds the rows.
ProcessCompany ==
    /\ pc = "company"
    /\ output' = process_company(input)
    /\ pc' = "rows"
    /\ UNCHANGED <<input, vendor, script_tags, mergeVars, parsed, out, exc,
                   escaped, collectVars, requests, laterVars>>

NextCompose == ProcessCompany

SpecCompose == InitCompose /\ [][NextCompose]_vars

(***************************************************************************)
(* _enrich_row (enrich.py, lines 101-161) on one row, the semaphore being  *)
(* free: up to the await of manager.enrich, then from its outcome on.      *)
(***************************************************************************)
InitEnrich ==
    /\ input \in [row : Rows, include : Includes]
    /\ pc = "enrich"
    /\ vendor = NewVendor(<<>>)
    /\ parsed = Unbound
    /\ InitLocals
    /\ NoCollect
    /\ requests = <<>>
    /\ NoLater

\* Lines 112-130: the row is returned as it is, or manager.enrich is awaited.
EnrichRow ==
    /\ pc = "enrich"
    /\ \E website \in {RowOr(input.row, WebsiteKeys)},
          contact_person \in {RowOr(input.row, ContactKeys)} :
          IF ~Truthy(website) \/ ~Truthy(contact_person)
          THEN /\ output' = <<input.row>>
               /\ pc' = "enriched"
               /\ UNCHANGED requests
          ELSE \E domain \in {extract_domain(website)} :
                  IF ~Truthy(domain)
                  THEN /\ output' = <<input.row>>
                       /\ pc' = "enriched"
                       /\ UNCHANGED requests
                  ELSE /\ requests' =
                            Append(requests,
                                   [payload |-> Payload(contact_person, website,
                                                        domain, input.include),
                                    reply |-> Pending])
                       /\ pc' = "lookup"
                       /\ UNCHANGED output
    /\ UNCHANGED <<input, vendor, script_tags, mergeVars, parsed, out, exc,
                   escaped, collectVars, laterVars>>

\* Lines 130-161: manager.enrich raises and the row is returned as it is, or
\* it returns and what is extracted from the response is written to the row.
EnrichReply ==
    /\ pc = "lookup"
    /\ \E reply \in Replies :
          /\ requests' = [requests EXCEPT ![Len(requests)].reply = reply]
          /\ IF reply.exc # ""
             THEN /\ output' = <<input.row>>
                  /\ pc' = "enriched"
                  /\ UNCHANGED exc
             ELSE \E extracted \in
                     {extract_email_and_phone_from_response(
                         PyOr(reply.val, PyDict(<<>>)))} :
                     IF extracted.exc # ""
                     THEN /\ exc' = extracted.exc
                          /\ pc' = "raised"
                          /\ UNCHANGED output
                     ELSE /\ output' = <<WriteExtracted(input.row, extracted)>>
                          /\ pc' = "enriched"
                          /\ UNCHANGED exc
    /\ UNCHANGED <<input, vendor, script_tags, mergeVars, parsed, out, escaped,
                   collectVars, laterVars>>

NextEnrich ==
    \/ EnrichRow
    \/ EnrichReply

SpecEnrich == InitEnrich /\ [][NextEnrich]_vars

\* extract_data_from_scripts called again and again on one frame list.
InitTwice ==
    /\ input = Input("entries", <<>>, <<>>)
    /\ pc = "site"
    /\ vendor = NewVendor(input.slug)
    /\ \E es \in WrapperLists :
          /\ parsed = Bound(es)
          /\ data = es
    /\ script_tags = <<>>
    /\ marker_index = -1
    /\ tag_i = 0
    /\ raw_items = <<>>
    /\ parsed_items = <<>>
    /\ item_i = 1
    /\ combined = <<>>
    /\ other = <<>>
    /\ spans = <<>>
    /\ out = EmptyDict
    /\ exc = ""
    /\ escaped = ""
    /\ output = <<>>
    /\ NoCollect
    /\ requests = <<>>
    /\ NoLater

\* The call has returned out; the next call, on the same list, begins with
\* line 44.
ExtractAgain ==
    /\ pc = "extracted"
    /\ Len(returns) < MaxCalls - 1
    /\ returns' = Append(returns, out)
    /\ out' = EmptyDict
    /\ pc' = "site"
    /\ UNCHANGED <<input, vendor, script_tags, mergeVars, parsed, exc, escaped,
                   output, collectVars, requests>>
    /\ UNCHANGED <<attempt, last_exc, retry_after, sleep_for, sent, managerVars,
                   restVars>>

NextTwice ==
    \/ SiteLookup
    \/ ProfileLookup
    \/ ExtractAgain

SpecTwice == InitTwice /\ [][NextTwice]_vars

(***************************************************************************)
(* ContactOutClient._request (core/contactout/client.py, lines 58-127),    *)
(* one call.                                                               *)
(***************************************************************************)
InitRequest ==
    /\ input \in RequestInputs
    /\ pc = "request"
    /\ vendor = NewVendor(<<>>)
    /\ parsed = Unbound
    /\ InitLocals
    /\ NoCollect
    /\ requests = <<>>
    /\ NoLater

\* What _request leaves alone.
notRequest ==
    <<input, vendor, script_tags, mergeVars, parsed, out, escaped, collectVars,
      requests, returns, managerVars, restVars>>

\* Lines 67-77: the guard, and the first attempt.
RequestBegin ==
    /\ pc = "request"
    /\ IF ~input.started
       THEN /\ exc' = "RuntimeError"
            /\ pc' = "raised"
            /\ UNCHANGED attempt
       ELSE /\ attempt' = 1
            /\ pc' = "attempt"
            /\ UNCHANGED exc
    /\ UNCHANGED <<output, last_exc, retry_after, sleep_for, sent>>
    /\ UNCHANGED notRequest

\* Lines 78-124: one attempt, from the call of _request_with_retries to the
\* return, the raise or the sleep.
RequestAttempt ==
    /\ pc = "attempt"
    /\ \E answer \in Answers :
          /\ sent' = Append(sent, answer)
          /\ CASE answer.kind = "json" ->
                    /\ output' = <<answer>>
                    /\ pc' = "returned"
                    /\ UNCHANGED <<exc, last_exc, retry_after, sleep_for>>
               [] answer.kind = "exc" ->
                    /\ last_exc' = answer.error
                    /\ exc' = answer.error
                    /\ pc' = "raised"
                    /\ UNCHANGED <<output, retry_after, sleep_for>>
               [] answer.kind = "cre" /\ answer.status # 429 ->
                    /\ last_exc' = answer.error
                    /\ exc' = MappedError(answer.status, answer.msg)
                    /\ pc' = "raised"
                    /\ UNCHANGED <<output, retry_after, sleep_for>>
               [] OTHER ->
                    /\ last_exc' = answer.error
                    /\ retry_after' = RetryAfter(answer.headers)
                    /\ IF Exhausted(attempt, input.max_retries_on_429)
                       THEN /\ exc' = "RateLimitError"
                            /\ pc' = "raised"
                            /\ UNCHANGED sleep_for
                       ELSE /\ sleep_for' =
                                 <<SleepFor(retry_after', input.backoff_factor,
                                            attempt)>>
                            /\ pc' = "sleep"
                            /\ UNCHANGED exc
                    /\ UNCHANGED output
    /\ UNCHANGED attempt
    /\ UNCHANGED notRequest

\* Lines 103-104 and 77: the sleep is over, the next attempt begins.
RequestWake ==
    /\ pc = "sleep"
    /\ sleep_for' = <<>>
    /\ attempt' = attempt + 1
    /\ pc' = "attempt"
    /\ UNCHANGED <<exc, output, last_exc, retry_after, sent>>
    /\ UNCHANGED notRequest

NextRequest ==
    \/ RequestBegin
    \/ RequestAttempt
    \/ RequestWake

SpecRequest == InitRequest /\ [][NextRequest]_vars

(***************************************************************************)
(* ContactOutTokenManager.enrich (core/contactout/manager.py, lines        *)
(* 73-99), several calls in flight.  A call runs from one await of the API *)
(* to the next without another call running in between.                    *)
(***************************************************************************)
NewCall(payload) ==
    [pc |-> "start", payload |-> payload, token |-> None, res |-> None,
     exc |-> "", depth |-> 0]

\* The call c over: return res, raise e.
ReturnRes(c, res) == [NewCall(c.payload) EXCEPT !.pc = "returned", !.res = res]

RaiseExc(c, e) == [NewCall(c.payload) EXCEPT !.pc = "raised", !.exc = e]

InitManager ==
    /\ input = [tokens |-> Tokens]
    /\ pc = "manager"
    /\ vendor = NewVendor(<<>>)
    /\ parsed = Unbound
    /\ InitLocals
    /\ NoCollect
    /\ requests = <<>>
    /\ attempt = 0
    /\ last_exc = ""
    /\ retry_after = <<>>
    /\ sleep_for = <<>>
    /\ sent = <<>>
    /\ returns = <<>>
    /\ NoRest
    /\ calls \in [Calls -> {NewCall(p) : p \in ManagerPayloads}]
    /\ quotas \in [{Tokens[i] : i \in 1..Len(Tokens)} ->
                      {extract_quota(s) : s \in StatsCatalog}]
    /\ cache \in InitialCaches

\* What enrich leaves alone.
notManager ==
    <<input, pc, exc, output, vendor, script_tags, mergeVars, parsed, out,
      escaped, collectVars, requests, attempt, last_exc, retry_after, sleep_for,
      sent, returns, restVars>>

\* Lines 74-84: enrich entered at a depth, to the return of the cached value,
\* the raise or the await of enrich_person.  The call c after it.
Enter(c, all_quotas, cache_data, level) ==
    LET Selected(token) ==
          IF token = None
          THEN RaiseExc(c, "OutOfCreditsError")
          ELSE [c EXCEPT !.pc = "api", !.token = token, !.depth = level]
        Looked(cached) ==
          IF cached # None
          THEN ReturnRes(c, cached)
          ELSE Selected(select_token(Tokens, all_quotas,
                                     determine_required_quota(c.payload)))
    IN  IF level >= RecursionLimit
        THEN RaiseExc(c, "RecursionError")
        ELSE Looked(CacheGet(cache_data, "POST", "/people/enrich", c.payload))

\* Lines 73-84: a call of enrich begins.
EnrichCall(i) ==
    /\ calls[i].pc = "start"
    /\ calls' = [calls EXCEPT ![i] = Enter(@, quotas, cache, 0)]
    /\ UNCHANGED <<quotas, cache>>
    /\ UNCHANGED notManager

\* Lines 83-91: enrich_person has returned or raised.
EnrichAnswer(i) ==
    /\ calls[i].pc = "api"
    /\ \/ \E res \in EnrichResults :
             calls' = [calls EXCEPT ![i].pc = "refresh", ![i].res = res]
       \/ \E e \in EnrichErrors :
             calls' = [calls EXCEPT
                         ![i] = IF e \in {"OutOfCreditsError", "NoAccessError"}
                                THEN [@ EXCEPT !.pc = "retry"]
                                ELSE RaiseExc(@, e)]
    /\ UNCHANGED <<quotas, cache>>
    /\ UNCHANGED notManager

\* Lines 93-97 and 118-121: get_stats has answered the refresh after the
\* response; the quotas of the token, the cache, the return.
Refreshed(i) ==
    /\ calls[i].pc = "refresh"
    /\ \/ \E stats \in StatsCatalog :
             /\ quotas' = [quotas EXCEPT ![calls[i].token] = extract_quota(stats)]
             /\ cache' = CacheSet(cache, "POST", "/people/enrich",
                                  calls[i].payload, calls[i].res)
             /\ calls' = [calls EXCEPT ![i] = ReturnRes(@, @.res)]
       \/ \E e \in StatsErrors :
             /\ calls' = [calls EXCEPT ![i] = RaiseExc(@, e)]
             /\ UNCHANGED <<quotas, cache>>
    /\ UNCHANGED notManager

\* Lines 86-88 and 118-121: get_stats has answered the refresh after
\* OutOfCreditsError or NoAccessError; the quotas of the token, and enrich
\* called again, one level deeper.
Retry(i) ==
    /\ calls[i].pc = "retry"
    /\ \/ \E stats \in StatsCatalog :
             /\ quotas' = [quotas EXCEPT ![calls[i].token] = extract_quota(stats)]
             /\ calls' = [calls EXCEPT
                            ![i] = Enter(@, quotas', cache, @.depth + 1)]
       \/ \E e \in StatsErrors :
             /\ calls' = [calls EXCEPT ![i] = RaiseExc(@, e)]
             /\ UNCHANGED quotas
    /\ UNCHANGED cache
    /\ UNCHANGED notManager

NextManager ==
    \/ \E i \in Calls : EnrichCall(i)
    \/ \E i \in Calls : EnrichAnswer(i)
    \/ \E i \in Calls : Refreshed(i)
    \/ \E i \in Calls : Retry(i)

SpecManager == InitManager /\ [][NextManager]_vars

\* The event loop resumes a call whose request has been answered, and every
\* request is answered.
FairManager ==
    \A i \in Calls :
        /\ WF_vars(EnrichCall(i))
        /\ WF_vars(EnrichAnswer(i))
        /\ WF_vars(Refreshed(i))
        /\ WF_vars(Retry(i))

SpecManagerFair == SpecManager /\ FairManager

(***************************************************************************)
(* process_csv (enrich.py, lines 172-217).  A task's pc is new, waiting    *)
(* (for the semaphore), enriching (manager.enrich awaited), done or        *)
(* raised; asyncio.as_completed hands the tasks over in the order they     *)
(* end, and the loop appends each row as it is handed over.                *)
(***************************************************************************)
InitCsv ==
    /\ input \in [rows : CsvFiles, concurrency : {1, 2}]
    /\ pc = "csv"
    /\ vendor = NewVendor(<<>>)
    /\ parsed = Unbound
    /\ InitLocals
    /\ NoCollect
    /\ requests = <<>>
    /\ NoLater

\* What process_csv leaves alone.
notCsv ==
    <<input, vendor, script_tags, mergeVars, parsed, out, escaped, collected,
      page, fetches, requests, attempt, last_exc, retry_after, sleep_for, sent,
      returns, managerVars, deferVars>>

\* Lines 194-196: the row gets a task of _enrich_row, not of _noop.
ToEnrich(row) ==
    /\ Truthy(RowOr(row, <<"Website", "website">>))
    /\ Truthy(RowOr(row, <<"Contact Person", "Contact">>))

CsvTask(row) ==
    [row |-> row, pc |-> "new", ticket |-> 0,
     coro |-> IF ToEnrich(row) THEN "_enrich_row" ELSE "_noop"]

\* Lines 172-207: the rows are read, the semaphore and the coroutines are
\* created, and as_completed makes a task of each.
CsvBegin ==
    /\ pc = "csv"
    /\ tasks' = [i \in 1..Len(input.rows) |-> CsvTask(input.rows[i])]
    /\ permits' = input.concurrency
    /\ pc' = "as_completed"
    /\ UNCHANGED <<exc, output, enriched_rows>>
    /\ UNCHANGED notCsv

\* _enrich_row, lines 112-120: the row is returned as it is.
ReturnsAtOnce(row) ==
    \/ ~Truthy(RowOr(row, WebsiteKeys))
    \/ ~Truthy(RowOr(row, ContactKeys))
    \/ ~Truthy(extract_domain(RowOr(row, WebsiteKeys)))

\* The ticket of a task that begins to wait: the waiters are woken in the
\* order they came.
NextTicket(ts) ==
    1 + Cardinality({t \in 1..Len(ts) : ts[t].ticket > 0})

\* A task's first run, the tasks being started in no fixed order (as_completed
\* makes them from a set): _noop returns the row; _enrich_row returns it, or
\* takes a permit and awaits manager.enrich, or waits for a permit.
CsvTaskStart(t) ==
    /\ pc = "as_completed"
    /\ tasks[t].pc = "new"
    /\ IF tasks[t].coro = "_noop" \/ ReturnsAtOnce(tasks[t].row)
       THEN /\ tasks' = [tasks EXCEPT ![t].pc = "done"]
            /\ enriched_rows' = Append(enriched_rows, tasks[t].row)
            /\ UNCHANGED permits
       ELSE IF permits > 0
       THEN /\ tasks' = [tasks EXCEPT ![t].pc = "enriching"]
            /\ permits' = permits - 1
            /\ UNCHANGED enriched_rows
       ELSE /\ tasks' = [tasks EXCEPT ![t].pc = "waiting",
                                      ![t].ticket = NextTicket(tasks)]
            /\ UNCHANGED <<permits, enriched_rows>>
    /\ UNCHANGED <<pc, exc, output>>
    /\ UNCHANGED notCsv

\* Line 128: the waiting task that came first is given a permit.
CsvAcquire(t) ==
    /\ pc = "as_completed"
    /\ tasks[t].pc = "waiting"
    /\ permits > 0
    /\ \A u \in 1..Len(tasks) :
          tasks[u].pc = "waiting" => tasks[t].ticket <= tasks[u].ticket
    /\ tasks' = [tasks EXCEPT ![t].pc = "enriching"]
    /\ permits' = permits - 1
    /\ UNCHANGED <<pc, exc, output, enriched_rows>>
    /\ UNCHANGED notCsv

\* Lines 130-161 and 204-207: manager.enrich has raised or returned; the
\* permit is released; the row is returned as it is or with what was
\* extracted, and appended; an exception of the extraction ends process_csv.
CsvReply(t) ==
    /\ pc = "as_completed"
    /\ tasks[t].pc = "enriching"
    /\ permits' = permits + 1
    /\ \E reply \in CsvReplies :
          IF reply.exc # ""
          THEN /\ tasks' = [tasks EXCEPT ![t].pc = "done"]
               /\ enriched_rows' = Append(enriched_rows, tasks[t].row)
               /\ UNCHANGED <<pc, exc>>
          ELSE \E extracted \in
                  {extract_email_and_phone_from_response(
                      PyOr(reply.val, PyDict(<<>>)))} :
                  IF extracted.exc # ""
                  THEN /\ tasks' = [tasks EXCEPT ![t].pc = "raised"]
                       /\ exc' = extracted.exc
                       /\ pc' = "raised"
                       /\ UNCHANGED enriched_rows
                  ELSE /\ tasks' =
                            [tasks EXCEPT
                               ![t].pc = "done",
                               ![t].row = WriteExtracted(@, extracted)]
                       /\ enriched_rows' =
                            Append(enriched_rows, tasks'[t].row)
                       /\ UNCHANGED <<pc, exc>>
    /\ UNCHANGED output
    /\ UNCHANGED notCsv

\* Lines 209-215: every task has been handed over; the rows are written.
CsvWrite ==
    /\ pc = "as_completed"
    /\ \A t \in 1..Len(tasks) : tasks[t].pc = "done"
    /\ output' = enriched_rows
    /\ pc' = "written"
    /\ UNCHANGED <<exc, tasks, permits, enriched_rows>>
    /\ UNCHANGED notCsv

NextCsv ==
    \/ CsvBegin
    \/ \E t \in 1..Len(tasks) : CsvTaskStart(t)
    \/ \E t \in 1..Len(tasks) : CsvAcquire(t)
    \/ \E t \in 1..Len(tasks) : CsvReply(t)
    \/ CsvWrite

SpecCsv == InitCsv /\ [][NextCsv]_vars

(***************************************************************************)
(* HTTPClient._request_with_retries (core/http/http.py, lines 88-144), one *)
(* call.  sent holds the requests made: the url, whether the certificate   *)
(* was verified, the attempt and what came back.  sleep_for is in units of *)
(* backoff_factor, the jitter of line 102 left aside.                      *)
(***************************************************************************)
InitHttp ==
    /\ input \in HttpInputs
    /\ pc = "call"
    /\ vendor = NewVendor(<<>>)
    /\ parsed = Unbound
    /\ InitLocals
    /\ NoCollect
    /\ requests = <<>>
    /\ NoLater

\* What _request_with_retries leaves alone.
notHttp ==
    <<input, vendor, script_tags, mergeVars, parsed, out, escaped, collectVars,
      requests, returns, retry_after, managerVars, restVars>>

Request(url, verified, answer) ==
    [url |-> url, verified |-> verified, attempt |-> attempt, answer |-> answer]

\* Lines 96 and 134: return resp
HttpReturn ==
    /\ output' = <<"resp">>
    /\ pc' = "returned"
    /\ UNCHANGED <<exc, last_exc, sleep_for>>

\* Lines 99-103 and 137-141: the end of an attempt that failed with e.
HttpEnd(e) ==
    /\ last_exc' = e
    /\ IF LastAttempt(attempt, input.max_retries)
       THEN /\ exc' = e
            /\ pc' = "raised"
            /\ UNCHANGED sleep_for
       ELSE /\ sleep_for' = <<2 ^ (attempt - 1)>>
            /\ pc' = "sleep"
            /\ UNCHANGED exc
    /\ UNCHANGED output

\* Lines 122-128: the insecure retry is made for a whitelisted host only.
HttpWhitelist(e) ==
    IF Whitelisted(input.url, input.insecure_whitelist)
    THEN /\ last_exc' = e
         /\ pc' = "insecure"
         /\ UNCHANGED <<exc, output, sleep_for>>
    ELSE HttpEnd(e)

\* Lines 89-92: the guard, and the first attempt; with max_retries = 0 the
\* loop is empty and the call returns None.
HttpBegin ==
    /\ pc = "call"
    /\ IF ~input.started
       THEN /\ exc' = "RuntimeError"
            /\ pc' = "raised"
            /\ UNCHANGED <<attempt, output>>
       ELSE IF input.max_retries = 0
       THEN /\ output' = <<"None">>
            /\ pc' = "returned"
            /\ UNCHANGED <<attempt, exc>>
       ELSE /\ attempt' = 1
            /\ pc' = "primary"
            /\ UNCHANGED <<exc, output>>
    /\ UNCHANGED <<last_exc, sleep_for, sent>>
    /\ UNCHANGED notHttp

\* Lines 93-112 and 142-144: the request of the attempt, with the
\* certificate verified.
HttpPrimary ==
    /\ pc = "primary"
    /\ \E answer \in HttpAnswers, alt_url \in {strip_www(input.url)} :
          /\ sent' = Append(sent, Request(input.url, TRUE, answer))
          /\ CASE answer = "ok" -> HttpReturn
               [] answer = "ClientConnectorDNSError" -> HttpEnd(answer)
               [] answer = "ClientConnectorCertificateError" ->
                    IF alt_url.exc # ""
                    THEN /\ last_exc' = answer
                         /\ exc' = alt_url.exc
                         /\ pc' = "raised"
                         /\ UNCHANGED <<output, sleep_for>>
                    ELSE IF alt_url.val # input.url
                    THEN /\ last_exc' = answer
                         /\ pc' = "alt"
                         /\ UNCHANGED <<exc, output, sleep_for>>
                    ELSE HttpWhitelist(answer)
               [] OTHER ->
                    /\ exc' = answer
                    /\ pc' = "raised"
                    /\ UNCHANGED <<output, last_exc, sleep_for>>
    /\ UNCHANGED attempt
    /\ UNCHANGED notHttp

\* Lines 113-120: the request of the url without its www.
HttpAlt ==
    /\ pc = "alt"
    /\ \E answer \in HttpAnswers :
          /\ sent' = Append(sent, Request(strip_www(input.url).val, TRUE, answer))
          /\ IF answer = "ok" THEN HttpReturn ELSE HttpWhitelist(answer)
    /\ UNCHANGED attempt
    /\ UNCHANGED notHttp

\* Lines 128-135: the request with ssl=self._insecure_ssl_context.
HttpInsecure ==
    /\ pc = "insecure"
    /\ \E answer \in HttpAnswers :
          /\ sent' = Append(sent, Request(input.url, FALSE, answer))
          /\ IF answer = "ok" THEN HttpReturn ELSE HttpEnd(answer)
    /\ UNCHANGED attempt
    /\ UNCHANGED notHttp

\* Lines 103, 141 and 92: the sleep is over, the next attempt begins.
HttpWake ==
    /\ pc = "sleep"
    /\ sleep_for' = <<>>
    /\ attempt' = attempt + 1
    /\ pc' = "primary"
    /\ UNCHANGED <<exc, output, last_exc, sent>>
    /\ UNCHANGED notHttp

NextHttp ==
    \/ HttpBegin
    \/ HttpPrimary
    \/ HttpAlt
    \/ HttpInsecure
    \/ HttpWake

SpecHttp == InitHttp /\ [][NextHttp]_vars

\* The call is over: it returned or raised.
HttpIdle == pc \in {"returned", "raised"}

\* Weak fairness of NextHttp: a request is answered or fails, and
\* asyncio.sleep returns.  A step is possible exactly when HttpIdle is false.
FairHttp == []<>HttpIdle \/ []<><<NextHttp>>_vars

SpecHttpFair == SpecHttp /\ FairHttp

(***************************************************************************)
(* optdefer (optdefer/runtime.py): one body of code that opens             *)
(* ExecutionContext blocks, calls functions wrapped with schedule_call,    *)
(* and calls functions wrapped with execution_context that do the same.    *)
(* calls is the stack of the blocks and execution_context wrappers that    *)
(* are open; a wrapper holds its local batch, and current_batch is <<>>    *)
(* for None or <<k>>, k the place in calls of the wrapper whose list it    *)
(* refers to.  sent is the calls appended to a batch, in the order they    *)
(* were made, and ran the functions run.                                   *)
(***************************************************************************)
InitDefer ==
    /\ input = [catalog |-> DeferCatalog]
    /\ pc = "start"
    /\ vendor = NewVendor(<<>>)
    /\ parsed = Unbound
    /\ InitLocals
    /\ NoCollect
    /\ requests = <<>>
    /\ NoLater

\* What the runtime leaves alone.
notDefer ==
    <<input, vendor, script_tags, mergeVars, parsed, out, escaped, output,
      collectVars, requests, attempt, last_exc, retry_after, sleep_for,
      returns, quotas, cache, enriched_rows>>

WithBlock == [kind |-> "with", batch |-> <<>>, i_am_owner |-> FALSE]

Wrapper(i_am_owner) == [kind |-> "wrapper", batch |-> <<>>, i_am_owner |-> i_am_owner]

\* ExecutionContext.__enter__, lines 75-85.
ContextEnter ==
    /\ pc \in {"start", "body"}
    /\ Len(calls) < MaxNesting
    /\ depth' = depth + 1
    /\ IF depth = 0
       THEN /\ batches' = <<>>
            /\ results_cache' = {}
       ELSE UNCHANGED <<batches, results_cache>>
    /\ current_batch' = <<>>
    /\ batch_blocked' = FALSE
    /\ calls' = Append(calls, WithBlock)
    /\ pc' = "body"
    /\ UNCHANGED <<ran, sent, exc>>
    /\ UNCHANGED notDefer

\* ExecutionContext.__exit__, lines 87-110: the exit of the outermost block
\* runs the batches; an exception of a call leaves __exit__ at once.
ContextExit ==
    /\ pc = "body"
    /\ calls # <<>>
    /\ calls[Len(calls)].kind = "with"
    /\ calls' = SubSeq(calls, 1, Len(calls) - 1)
    /\ depth' = depth - 1
    /\ IF depth' = 0
       THEN \E st \in {RunBatches([cache |-> results_cache, ran |-> ran,
                                   batches |-> batches, exc |-> ""], 1, 1)} :
               /\ ran' = st.ran
               /\ IF st.exc # ""
                  THEN /\ exc' = st.exc
                       /\ pc' = "raised"
                       /\ batch_blocked' = TRUE
                       /\ batches' = st.batches
                       /\ results_cache' = st.cache
                       /\ UNCHANGED current_batch
                  ELSE /\ pc' = "exited"
                       /\ batch_blocked' = FALSE
                       /\ batches' = <<>>
                       /\ current_batch' = <<>>
                       /\ results_cache' = {}
                       /\ UNCHANGED exc
       ELSE UNCHANGED <<ran, exc, pc, batch_blocked, batches, current_batch,
                        results_cache>>
    /\ UNCHANGED sent
    /\ UNCHANGED notDefer

\* A function wrapped with schedule_call is called with the arguments of
\* call (lines 170-183 around lines 188-198): the DeferredCall is made and
\* appended, the function is not run.
ScheduleCall ==
    /\ pc = "body"
    /\ Len(sent) < MaxScheduled
    /\ \E call \in input.catalog :
          /\ sent' = Append(sent, call)
          /\ IF current_batch = <<>>
             THEN /\ batches' = Append(batches, IF batch_blocked THEN <<>> ELSE <<call>>)
                  /\ UNCHANGED calls
             ELSE /\ calls' = [calls EXCEPT ![current_batch[1]].batch =
                                   IF batch_blocked THEN @ ELSE Append(@, call)]
                  /\ UNCHANGED batches
    /\ current_batch' = current_batch
    /\ UNCHANGED <<pc, depth, batch_blocked, results_cache, ran, exc>>
    /\ UNCHANGED notDefer

\* A function wrapped with execution_context is called: lines 170-176.
WrapperEnter ==
    /\ pc = "body"
    /\ Len(calls) < MaxNesting
    /\ Len(batches) < MaxScheduled
    /\ calls' = Append(calls, Wrapper(current_batch = <<>>))
    /\ current_batch' = IF current_batch = <<>> THEN <<Len(calls) + 1>>
                        ELSE current_batch
    /\ UNCHANGED <<pc, depth, batches, batch_blocked, results_cache, ran, sent, exc>>
    /\ UNCHANGED notDefer

\* It returns: lines 178-185.
WrapperReturn ==
    /\ pc = "body"
    /\ calls # <<>>
    /\ calls[Len(calls)].kind = "wrapper"
    /\ calls' = SubSeq(calls, 1, Len(calls) - 1)
    /\ IF calls[Len(calls)].i_am_owner
       THEN /\ batches' = Append(batches, calls[Len(calls)].batch)
            /\ current_batch' = <<>>
       ELSE UNCHANGED <<batches, current_batch>>
    /\ UNCHANGED <<pc, depth, batch_blocked, results_cache, ran, sent, exc>>
    /\ UNCHANGED notDefer

NextDefer ==
    \/ ContextEnter
    \/ ContextExit
    \/ ScheduleCall
    \/ WrapperEnter
    \/ WrapperReturn

SpecDefer == InitDefer /\ [][NextDefer]_vars

(***************************************************************************)
(* Where a call is, for the properties below.                              *)
(***************************************************************************)
\* The page was fetched and its tags extracted.
Fetched == Truthy(vendor.slug) /\ input.fetch_ok /\ pc # "start"

\* The marker was searched and every block after it was scanned.
Scanned == Fetched /\ pc \notin {"marker", "scan"}

\* The combined buffer is complete: every literal was parsed and every record
\* was looked at.
CombinedComplete ==
    /\ Scanned
    /\ marker_index # -1
    /\ pc \notin {"parse", "combine"}
    /\ Len(parsed_items) = Len(raw_items)
    /\ item_i > Len(parsed_items)

\* merge_next_f_scripts returned the frames of the combined buffer.
Framed == CombinedComplete /\ parsed.bound

\* The characters a JSON value can begin with.
JsonStart == Digits \cup {"\"", "{", "[", "-", "n", "t", "f", "N", "I"}

\* Frame f, followed on the wire by rest, is well formed and its boundaries are
\* not ambiguous: a hex id, one delimiter that is not a hex digit; a T frame
\* declares the length of its text, its text does not begin like a JSON value,
\* and a resync signature in the text or the 20 characters after it points at
\* the end of the text; any other frame has a tag free of the characters that
\* end a tag, and its value is a JSON value that begins with one of them, with
\* its trailing whitespace.
WellFormed(f, rest) ==
    /\ f.id # <<>>
    /\ \A i \in 1..Len(f.id) : f.id[i] \in HexAlpha
    /\ Len(f.delim) = 1
    /\ f.delim[1] \notin HexAlpha
    /\ IF f.tag = <<"T">>
       THEN /\ f.len = Len(f.value)
            /\ At(f.value, SkipWs(f.value, 0)) \notin JsonStart
            /\ \A c \in 1..Len(Checks) :
                  Contains(f.value \o Slice(rest, 0, ResyncLookahead), Checks[c])
                  => Find(f.value \o rest, Checks[c]) - ResyncBack = Len(f.value)
       ELSE /\ \A i \in 1..Len(f.tag) : f.tag[i] \notin AlphaStop \cup {"T"}
            /\ At(f.value, 0) \in AlphaStop
            /\ JsonLoads(f.value).ok

AllWellFormed(fs) ==
    \A i \in 1..Len(fs) :
       WellFormed(fs[i], EncodeAll(SubSeq(fs, i + 1, Len(fs))))

\* Entry i of data is frame i of the input.
SameFrame(i) ==
    /\ data[i].hex_string = input.frames[i].id
    /\ data[i].data_type = input.frames[i].tag
    /\ data[i].val = PyStr(input.frames[i].value)

C2_Partition ==
    Framed =>
       \A i \in 1..Len(spans) :
          /\ spans[i].start = (IF i = 1 THEN 0 ELSE spans[i - 1].next)
          /\ spans[i].start <= spans[i].vstart
          /\ spans[i].vend = spans[i].next
          /\ data[i].val.s = Slice(combined, spans[i].vstart, spans[i].next)

(***************************************************************************)
(* C3.  Resync: the position of the opening brace of the object the first  *)
(* signature was found at, for entry i.                                    *)
(***************************************************************************)
TypenameInWindow(i) ==
    /\ data[i].data_type = <<"T">>
    /\ Contains(Slice(combined, spans[i].vstart, spans[i].vend + ResyncLookahead),
                Checks[1])

Brace(i) ==
    spans[i].vstart + Find(From(combined, spans[i].vstart), Checks[1]) + 1

\* C3 as stated: after a T frame with the signature of a __typename object in
\* reach, the next frame starts 2 characters before the object's opening brace.
C3_BraceMinusTwo ==
    \A i \in 1..Len(spans) :
       (TypenameInWindow(i) /\ spans[i].vend < Brace(i))
       => spans[i].next = Brace(i) - 2

\* C3 amended: after a T frame with :{"__typename in its value or the 20
\* characters after it, the next frame starts 2 characters before the colon of
\* the first :{"__typename of the buffer the value was sliced from, that is 3
\* before the opening brace, and no earlier than the start of that buffer.
C3_ColonMinusTwo ==
    \A i \in 1..Len(spans) :
       TypenameInWindow(i)
       => spans[i].next = (IF Brace(i) - 3 < spans[i].vstart
                           THEN spans[i].vstart ELSE Brace(i) - 3)

C3_Witness ==
    \E i \in 1..Len(spans) :
       /\ TypenameInWindow(i)
       /\ spans[i].vend < Brace(i) - 3
       /\ spans[i].next = Brace(i) - 3
       /\ Len(data) > i
       /\ data[i + 1].hex_string = <<"1", "a">>

(***************************************************************************)
(* C4.  Lookup independence: the record returned holds what each lookup    *)
(* yields from the frame list on its own, whether the other lookup found   *)
(* its frame, failed to parse it, or found nothing.                        *)
(***************************************************************************)
SiteAlone(es) == SiteBody(es, EmptyDict).out
ProfileAlone(es) == ProfileBody(es, EmptyDict).out

\* C4: the record returned is what the two lookups yield, each on its own.
C4_Independent ==
    pc = "extracted" =>
       /\ DOMAIN out = DOMAIN SiteAlone(data) \cup DOMAIN ProfileAlone(data)
       /\ \A x \in DOMAIN SiteAlone(data) : out[x] = SiteAlone(data)[x]
       /\ \A x \in DOMAIN ProfileAlone(data) : out[x] = ProfileAlone(data)[x]

(***************************************************************************)
(* C5.  The example: the buffer decodes to one entry, of id "4", and the   *)
(* extraction yields facebookUrl and teamMembers and nothing else.         *)
(***************************************************************************)
ExampleOut ==
    [facebookUrl |-> PyStr(<<"h", "t", "t", "p", "s", ":", "/", "/", "f", "b", ".", "c", "o", "m", "/", "x">>),
     teamMembers |-> PyDict(<<Pair(PyStr(<<"A", "n", "n", " ", "L", "e", "e">>), PyStr(<<"P", "l", "a", "n", "n", "e", "r">>))>>)]

OnExample == input.page = PageOfBuffer(ExampleBuffer)

\* C5: on the example, one entry of id "4" and the record ExampleOut.
C5_Example ==
    (OnExample /\ CombinedComplete)
    => /\ pc # "raised"
       /\ pc # "frame" =>
             /\ parsed.bound
             /\ Len(data) = 1
             /\ data[1].hex_string = <<"4">>
             /\ data[1].val = PyStr(From(ExampleBuffer, 2))
       /\ pc \in {"extracted", "done", "returned"} => out = ExampleOut
       /\ pc \in {"done", "returned"} => vendor.extra = ExampleOut

C5_Witness == OnExample /\ pc = "returned" /\ out = ExampleOut

(***************************************************************************)
(* C6.  Empty input: with the marker found and an empty combined buffer    *)
(* the framer returns no entry and raises nothing; the extraction of an    *)
(* empty frame list is the empty record, without an exception.             *)
(***************************************************************************)
C6_EmptyInput ==
    /\ (CombinedComplete /\ combined = <<>>)
       => /\ pc # "raised"
          /\ exc = ""
          /\ data = <<>>
          /\ pc # "frame" => parsed = Bound(<<>>)
    /\ (parsed = Bound(<<>>) /\ data = <<>>)
       => /\ pc # "raised"
          /\ exc = ""
          /\ DOMAIN out = {}
          /\ DOMAIN vendor.extra = {}

C6_Witness ==
    /\ CombinedComplete
    /\ combined = <<>>
    /\ raw_items # <<>>
    /\ \A i \in 1..Len(parsed_items) : ~TextChunkCode(parsed_items[i].k[1].val)
    /\ pc = "returned"

(***************************************************************************)
(* C7.  Marker not found: when no block's src holds the marker, the call   *)
(* of merge_next_f_scripts returns [] and raises nothing, whatever the     *)
(* blocks hold; no block is scanned, no literal parsed.                    *)
(***************************************************************************)
NoMarker(blocks) ==
    \A i \in 1..Len(blocks) :
       blocks[i].src.t # "str" \/ ~Contains(blocks[i].src.s, marker_src_substring)

\* C7: without a marker block, [] is returned, nothing scanned, nothing raised.
C7_MarkerNotFound ==
    (Fetched /\ pc # "marker" /\ NoMarker(input.page))
    => /\ marker_index = -1
       /\ parsed.bound
       /\ data = <<>>
       /\ raw_items = <<>>
       /\ parsed_items = <<>>
       /\ combined = <<>>
       /\ pc # "raised"
       /\ exc = ""
       /\ escaped = ""

C7_Witness ==
    /\ Fetched
    /\ NoMarker(input.page)
    /\ pc = "returned"
    /\ \E i \in 1..Len(input.page) :
          \E j \in 1..Len(input.page[i].items) :
             input.page[i].items[j] = LiteralItem(<<"[", "1", ",", "\"", "a", "]">>)
    /\ \E i \in 1..Len(input.page) :
          \E j \in 1..Len(input.page[i].items) :
             input.page[i].items[j].kind = "push"

(***************************************************************************)
(* C8.  The combined buffer is the concatenation, in block order and in    *)
(* match order, of the payloads of the records of type 1 of the blocks     *)
(* after the first marker block; the other blocks give nothing; a record   *)
(* of another type changes nothing and does not stop the decode.           *)
(***************************************************************************)
FirstMarkerBlock(blocks) ==
    Min({i \in 1..Len(blocks) : blocks[i].src = MarkerSrc} \cup {Len(blocks) + 1})

ExpectedCombined(blocks) ==
    Concat([i \in 1..Len(blocks) |->
              IF i <= FirstMarkerBlock(blocks) THEN <<>>
              ELSE Concat([j \in 1..Len(blocks[i].items) |->
                             IF /\ blocks[i].items[j].kind = "push"
                                /\ blocks[i].items[j].tp = <<"1">>
                             THEN blocks[i].items[j].text ELSE <<>>])])

\* The pattern cuts a literal at its first "]" that a ")" follows.
CutShort(text) ==
    \E q \in 0..(Len(text) - 1) :
       At(text, q) = "]" /\ At(text, SkipWs(text, q + 1)) = ")"

\* Every push call after the marker block holds a record [type, payload] that
\* the pattern extracts whole.
WholeRecords(blocks) ==
    \A i \in 1..Len(blocks) :
       i > FirstMarkerBlock(blocks) =>
          \A j \in 1..Len(blocks[i].items) :
             LET it == blocks[i].items[j]
             IN  /\ it.kind = "push" => ~CutShort(JsonDumpStr(it.text))
                 /\ it.kind = "literal" => it.text \in {<<"[", "2", ",", "n", "u", "l", "l", "]">>, <<" ", "[", "3", ",", "n", "u", "l", "l", "]", " ">>}

\* C8: combined is the concatenation of the type-1 payloads after the first
\* marker block, and records of other types do not stop the decode.
C8_Combined ==
    /\ Framed => combined = ExpectedCombined(input.page)
    /\ (Scanned /\ marker_index # -1 /\ WholeRecords(input.page))
       => /\ pc = "raised" => CombinedComplete
          /\ CombinedComplete => combined = ExpectedCombined(input.page)

C8_Witness ==
    /\ Framed
    /\ WholeRecords(input.page)
    /\ combined # <<>>
    /\ pc = "returned"
    /\ input.page[1].items # <<>>
    /\ \E i \in 1..Len(input.page) :
          i > FirstMarkerBlock(input.page) /\ input.page[i].src = MarkerSrc
    /\ \E i \in 1..Len(parsed_items) : ~TextChunkCode(parsed_items[i].k[1].val)

(***************************************************************************)
(* C9.  A malformed push literal: merge_next_f_scripts raises and returns  *)
(* no frame; the vendor keeps an empty extra, the exception does not leave *)
(* _fetch_and_parse_extra, and collect_vendors returns the vendor with its *)
(* listing fields.                                                         *)
(***************************************************************************)
MalformedLiteral ==
    /\ Scanned
    /\ \E i \in 1..Len(raw_items) : ~JsonLoads(raw_items[i]).ok

ListingFields ==
    [slug |-> vendor.slug, name |-> vendor.name,
     phone_number |-> vendor.phone_number,
     minimum_spend |-> vendor.minimum_spend, url_extra |-> EmptyDict]

\* C9: a malformed literal aborts the decode; the vendor is returned with its
\* listing fields and no exception leaves the call.
C9_MalformedPush ==
    MalformedLiteral
    => /\ pc \in {"parse", "raised", "done", "returned"}
       /\ ~parsed.bound
       /\ data = <<>>
       /\ pc = "raised" => exc = "JSONDecodeError"
       /\ DOMAIN vendor.extra = {}
       /\ escaped = ""
       /\ pc = "done" => ENABLED Output
       /\ pc = "returned" => output = ListingFields

C9_Witness ==
    /\ MalformedLiteral
    /\ pc = "returned"
    /\ Len(raw_items) > 1
    /\ parsed_items # <<>>

(***************************************************************************)
(* C10.  extract_data_from_scripts never raises: no exception is in flight *)
(* after a lookup, whatever the frame list; a key a lookup could not       *)
(* produce is left out, and the second lookup keeps every key and value    *)
(* the first one wrote.                                                    *)
(***************************************************************************)
C10_NeverRaises ==
    /\ [](pc # "raised" /\ exc = "")
    /\ [][ProfileLookup =>
            /\ pc' = "extracted"
            /\ \A x \in DOMAIN out : x \in DOMAIN out' /\ out'[x] = out[x]
            /\ ProfileBody(parsed.val, out).exc = ""
               => \A x \in DOMAIN ProfileAlone(parsed.val) : x \in DOMAIN out']_vars
    /\ [][SiteLookup =>
            /\ pc' = "profile"
            /\ DOMAIN out' \subseteq {"url"}]_vars

C10_Witness ==
    /\ pc = "extracted"
    /\ ProfileBody(parsed.val, EmptyDict).exc # ""
    /\ DOMAIN out = {"url", "instagramUrl"}

(***************************************************************************)
(* C11.  The probe on a T frame: the hex length a T entry declared, and    *)
(* the buffer its value was sliced from.                                   *)
(***************************************************************************)
DeclaredAt(i) ==
    AfterTag(From(SplitAfter(From(combined, spans[i].start), data[i].hex_string), 1),
             <<"T">>).declared

ValueBuffer(i) == From(combined, spans[i].vstart)

\* The pass at the head of the remaining buffer is a T frame with a length.
TextFrameAhead ==
    \E h \in {get_next_hex_string(other)} :
       /\ h # <<>>
       /\ \E o1 \in {From(SplitAfter(other, h), 1)} :
             /\ get_next_data_type_string(o1) = <<"T">>
             /\ get_next_hex_string(From(o1, 1)) # <<>>

\* C11: a T entry's obj_length is what the probe consumed of the buffer when
\* the probe succeeds, whatever length was declared, and the declared length
\* when the probe fails; its value is that many characters of the buffer; and
\* a pass on a T frame with a length never raises.
C11_ProbeOverride ==
    /\ \A i \in 1..Len(data) :
          data[i].data_type = <<"T">>
          => /\ data[i].obj_length =
                   (IF GetObjLength(ValueBuffer(i)).ok
                    THEN GetObjLength(ValueBuffer(i)).end
                    ELSE DeclaredAt(i))
             /\ data[i].val = PyStr(Slice(ValueBuffer(i), 0, data[i].obj_length))
    /\ (pc = "frame" /\ TextFrameAhead) => FrameIter(other).kind = "entry"

\* A T entry that fell back to its declared length, a later T entry whose
\* probe overrode a different declared length.
C11_Witness ==
    \E i, j \in 1..Len(data) :
       /\ i < j
       /\ data[i].data_type = <<"T">>
       /\ ~GetObjLength(ValueBuffer(i)).ok
       /\ data[i].obj_length = DeclaredAt(i)
       /\ data[j].data_type = <<"T">>
       /\ GetObjLength(ValueBuffer(j)).ok
       /\ data[j].obj_length # DeclaredAt(j)

(***************************************************************************)
(* C12.  The probe on a frame with no declared length.                     *)
(***************************************************************************)
\* The pass at the head of the remaining buffer is a frame whose tag is not T
\* and whose value does not begin with a JSON value.
NonTextProbeFails ==
    \E h \in {get_next_hex_string(other)} :
       /\ h # <<>>
       /\ \E o1 \in {From(SplitAfter(other, h), 1)} :
            \E dt \in {get_next_data_type_string(o1)} :
               /\ dt # <<"T">>
               /\ ~GetObjLength(From(o1, Len(dt))).ok

\* C12: a pass on such a frame raises JSONDecodeError out of
\* merge_next_f_scripts; the caller's parsed is never bound, so no frame is
\* returned, the entries already built included, and nothing is extracted.
C12_ProbeFatal ==
    /\ [][(pc = "frame" /\ NonTextProbeFails)
          => /\ pc' = "raised"
             /\ exc' = "JSONDecodeError"
             /\ parsed' = Unbound
             /\ data' = data]_vars
    /\ []((CombinedComplete /\ pc # "frame" /\ ~parsed.bound)
          => /\ NonTextProbeFails
             /\ pc \in {"raised", "done", "returned"}
             /\ out = EmptyDict
             /\ vendor.extra = EmptyDict)

\* The framer raised on the second frame, after it had built an entry.
C12_Witness ==
    /\ CombinedComplete
    /\ pc = "raised"
    /\ exc = "JSONDecodeError"
    /\ Len(data) >= 1
    /\ ~parsed.bound
    /\ NonTextProbeFails

(***************************************************************************)
(* C13.  Exhaustion: the remaining buffer does not begin with a hex digit. *)
(***************************************************************************)
NoHexAhead == other = <<>> \/ other[1] \notin HexAlpha

\* C13: a pass on a buffer that is empty or begins with another character
\* than 0-9a-f stops the loop without raising; merge_next_f_scripts returns
\* the entries built so far, as they were built.
C13_Exhaustion ==
    /\ [][(pc = "frame" /\ NoHexAhead)
          => /\ pc' = "site"
             /\ exc' = ""
             /\ data' = data
             /\ parsed' = Bound(data)]_vars
    /\ []((CombinedComplete /\ pc = "site") => parsed = Bound(data))

\* The framer returned one entry or more and left a buffer that is not empty.
C13_Witness ==
    /\ CombinedComplete
    /\ pc = "site"
    /\ Len(data) >= 1
    /\ other # <<>>
    /\ NoHexAhead
    /\ parsed = Bound(data)

(***************************************************************************)
(* C14.  The urls of a returned record.                                    *)
(***************************************************************************)
UrlKeys == {"url", "facebookUrl", "instagramUrl"}

KeyChars(k) ==
    CASE k = "url" -> <<"u", "r", "l">>
      [] k = "facebookUrl" -> <<"f", "a", "c", "e", "b", "o", "o", "k", "U", "r", "l">>
      [] OTHER -> <<"i", "n", "s", "t", "a", "g", "r", "a", "m", "U", "r", "l">>

\* The values the frames read hold for key k: under the key at the top of a
\* frame's object for url, under [3]["pro"] of an id "4" frame for the others.
SourceValues(k) ==
    LET Top(v) == IF v.t = "obj" /\ DictHas(v, <<"u", "r", "l">>) THEN {DictGet(v, <<"u", "r", "l">>)} ELSE {}
        Under(pro) == IF pro.t = "obj" /\ DictHas(pro, KeyChars(k))
                      THEN {DictGet(pro, KeyChars(k))} ELSE {}
        Inner(v) == IF v.t = "obj" /\ DictHas(v, <<"p", "r", "o">>) THEN Under(DictGet(v, <<"p", "r", "o">>))
                    ELSE {}
        Pro(v) == IF v.t = "arr" /\ Len(v.k) > 3 THEN Inner(v.k[4].val) ELSE {}
        Of(e, r) == IF ~r.ok THEN {}
                    ELSE IF k = "url" THEN Top(r.val)
                    ELSE IF e.hex_string = <<"4">> THEN Pro(r.val) ELSE {}
    IN  UNION {Of(parsed.val[i], JsonLoads(parsed.val[i].val.s)) :
                 i \in {j \in 1..Len(parsed.val) : parsed.val[j].val.t = "str"}}

\* C14: in the record extract_data_from_scripts returns, url, facebookUrl and
\* instagramUrl are absent or hold a value of the frames that is not null, not
\* the empty string, and truthy.
C14_NoPlaceholder ==
    pc = "extracted"
    => \A k \in UrlKeys \cap DOMAIN out :
          /\ out[k] # PyNone
          /\ out[k] # PyStr(<<>>)
          /\ Truthy(out[k])
          /\ out[k] \in SourceValues(k)

\* The frames hold an empty url, an empty facebookUrl and a null instagramUrl,
\* and the record returned has none of the three keys.
C14_Witness ==
    /\ pc = "extracted"
    /\ PyStr(<<>>) \in SourceValues("url")
    /\ PyStr(<<>>) \in SourceValues("facebookUrl")
    /\ PyNone \in SourceValues("instagramUrl")
    /\ UrlKeys \cap DOMAIN out = {}

(***************************************************************************)
(* C15.  The permits of the semaphore of collect_vendors.                  *)
(***************************************************************************)
\* The tasks inside "async with semaphore": awaiting the detail page or the
\* data of its url.
InFlight == {t \in 1..Len(tasks) : tasks[t].pc \in {"fetching", "url"}}

\* C15: the tasks fetching a detail page are never more than the configured
\* concurrency; a permit is out exactly while its task is in flight, whether
\* the task ended with data, without, or on an exception; between gathers
\* every permit is back.
C15_BoundedConcurrency ==
    /\ Cardinality(InFlight) <= input.concurrency
    /\ permits >= 0
    /\ permits = input.concurrency - Cardinality(InFlight)
    /\ pc \in {"list", "break", "returned"} => permits = input.concurrency

\* One permit: a vendor whose fetch failed in an earlier gather holds it again,
\* and another task waits for it.
C15_Witness ==
    /\ pc = "gather"
    /\ input.concurrency = 1
    /\ permits = 0
    /\ \E t, u \in 1..Len(tasks) :
          /\ tasks[t].pc = "fetching"
          /\ ~DetailOf(collected[tasks[t].v].slug.s).fetch_ok
          /\ fetches[tasks[t].v] = 2
          /\ tasks[u].pc = "waiting"

(***************************************************************************)
(* C16.  Each collected vendor's detail page is fetched at most once in a  *)
(* call of collect_vendors, whatever its first fetch or decode gave.       *)
(***************************************************************************)
C16_FetchedOnce ==
    \A i \in 1..Len(fetches) : fetches[i] <= 1

(***************************************************************************)
(* C17.  What a vendor's detail page gives on its own: nothing without a   *)
(* slug, when the fetch fails or when the page's decode raises.            *)
(***************************************************************************)
ExpectedExtra(slug) ==
    LET Of(r) == IF r.exc # "" THEN EmptyDict ELSE r.val
    IN  IF slug = <<>> \/ ~DetailOf(slug).fetch_ok THEN EmptyDict
        ELSE Of(ParseExtra(DetailOf(slug).page))

VendorFails(slug) ==
    /\ slug # <<>>
    /\ \/ ~DetailOf(slug).fetch_ok
       \/ ParseExtra(DetailOf(slug).page).exc # ""

\* C17: no task raises, and collect_vendors raises only when a listing request
\* fails; gather returns with every task done; each vendor's extra is empty
\* or what its own page gives, and in the output returned it is what its own
\* page gives, whatever happened to the other vendors.
C17_Isolation ==
    /\ [](/\ \A t \in 1..Len(tasks) : tasks[t].pc # "raised"
          /\ pc = "raised" => input.fail_page = page
          /\ \A i \in 1..Len(collected) :
                \/ DOMAIN collected[i].extra = {}
                \/ collected[i].extra = ExpectedExtra(collected[i].slug.s)
          /\ (pc = "returned" /\ input.fetch_additional)
             => \A i \in 1..Len(output) :
                   /\ collected[i].extra = ExpectedExtra(collected[i].slug.s)
                   /\ output[i] = to_dict(collected[i]))
    /\ [][Gathered => (pc' = "list" /\ \A t \in 1..Len(tasks) : tasks[t].pc = "done")]_vars

\* Two vendors gathered together, two permits: one failed and has no data, the
\* other has the data of its page.
C17_Witness ==
    /\ pc = "returned"
    /\ input.concurrency = 2
    /\ input.per_page = 2
    /\ Len(output) = 2
    /\ \E i, j \in 1..2 :
          /\ VendorFails(collected[i].slug.s)
          /\ DOMAIN collected[i].extra = {}
          /\ ~VendorFails(collected[j].slug.s)
          /\ DOMAIN collected[j].extra # {}
          /\ "instagramUrl" \in DOMAIN output[j]

(***************************************************************************)
(* C18.  What extract_data_from_scripts changes in the frame list it is    *)
(* given (data: the list as the framer built it; parsed: the list now).    *)
(***************************************************************************)
Replaced == {i \in 1..Len(data) : parsed.val[i].val # data[i].val}

\* Entry i as built is a wrapper: {"dangerouslySetInnerHTML" in its val, and
\* {\"@context\" after it.
IsWrapper(i) ==
    /\ Find(data[i].val.s, s_marker) # -1
    /\ Contains(From(data[i].val.s, Find(data[i].val.s, s_marker)), s2)

\* C18: the list keeps its length and order and every entry its hex_string,
\* data_type and obj_length; the val of at most one entry is replaced, that of
\* a wrapper, by the wrapper's __html, and only when no val starts with
\* {"@context"; the profile lookup changes nothing.
C18_SingleUnwrap ==
    /\ [](/\ Len(parsed.val) = Len(data)
          /\ \A i \in 1..Len(data) :
                /\ parsed.val[i].hex_string = data[i].hex_string
                /\ parsed.val[i].data_type = data[i].data_type
                /\ parsed.val[i].obj_length = data[i].obj_length
          /\ Cardinality(Replaced) <= 1
          /\ \A i \in Replaced :
                /\ IsWrapper(i)
                /\ get_script2_index(data) = -1
                /\ parsed.val[i].val =
                      InnerHtml(From(data[i].val.s, Find(data[i].val.s, s_marker))).val)
    /\ [][ProfileLookup => parsed' = parsed]_vars

\* Two wrappers in the list: the first was unwrapped, the second was not.
C18_Witness ==
    /\ pc = "extracted"
    /\ Len(data) = 2
    /\ IsWrapper(1)
    /\ IsWrapper(2)
    /\ Replaced = {1}

(***************************************************************************)
(* C19.  Probe chaining.                                                   *)
(***************************************************************************)
\* The length of value i of the chain and of the whitespace after it (before
\* it too, for the first).
LinkLength(i) ==
    Len(input.chain[i].value) + Len(input.chain[i].ws)
    + (IF i = 1 THEN Len(input.lead) ELSE 0)

RECURSIVE Consumed(_)
Consumed(i) == IF i = 0 THEN 0 ELSE Consumed(i - 1) + (spans[i].next - spans[i].start)

\* C19: on a chain of JSON values separated by whitespace no probe raises;
\* probe i begins where probe i - 1 ended and consumes value i with the
\* whitespace around it; when the buffer is empty there was one probe per
\* value and the lengths consumed add up to the length of the chain.
C19_ProbeChain ==
    /\ pc # "raised"
    /\ Len(spans) <= Len(input.chain)
    /\ \A i \in 1..Len(spans) :
          /\ spans[i].start = (IF i = 1 THEN 0 ELSE spans[i - 1].next)
          /\ spans[i].vend = spans[i].next
          /\ spans[i].next - spans[i].start = LinkLength(i)
    /\ other = From(combined, Consumed(Len(spans)))
    /\ pc = "done" => /\ Len(spans) = Len(input.chain)
                      /\ Consumed(Len(spans)) = Len(combined)

\* A chain of two values, a number and an object with whitespace inside, was
\* probed to its end.
C19_Witness ==
    /\ pc = "done"
    /\ Len(input.chain) = 2
    /\ input.chain[1].value = <<"-", "2", ".", "5", "e", "1">>
    /\ input.chain[2].value = <<"{", "\"", "k", "\"", ":", " ", "[", "n", "u", "l", "l", "]", "}">>
    /\ input.lead # <<>>
    /\ Len(spans) = 2

\* The team members of a company: the pairs of teamMembers, none when the
\* field is missing or empty.
TeamOf(company) ==
    IF DictHas(company, <<"t", "e", "a", "m", "M", "e", "m", "b", "e", "r", "s">>) /\ Truthy(DictGet(company, <<"t", "e", "a", "m", "M", "e", "m", "b", "e", "r", "s">>))
    THEN DictGet(company, <<"t", "e", "a", "m", "M", "e", "m", "b", "e", "r", "s">>).k ELSE <<>>

\* The person names recognised in the keys of the team members m, m + 1, ...
RECURSIVE PersonNames(_, _)
PersonNames(team, m) ==
    IF m > Len(team) THEN <<>>
    ELSE split_names_from_key(team[m].key) \o PersonNames(team, m + 1)

IsFallbackRow(row) ==
    row["Contact Person"] = PyStr(<<>>) /\ row["Job Title"] = PyStr(<<>>)

\* C20: process_company returns one row per person name recognised in the
\* keys of the team members, in their order and with the name as Contact
\* Person, or exactly one fallback row (empty Contact Person and Job Title)
\* when the company has no team members or no person name is recognised in any
\* key; it never returns zero rows.
C20_RowPerName ==
    LET Holds(names) ==
          /\ output # <<>>
          /\ IF names = <<>>
             THEN Len(output) = 1 /\ IsFallbackRow(output[1])
             ELSE /\ Len(output) = Len(names)
                  /\ \A n \in 1..Len(names) :
                        output[n]["Contact Person"] = PyStr(names[n])
    IN  pc = "rows" => Holds(PersonNames(TeamOf(input), 1))

\* A company of two team members, one of them a key of two names, got three
\* rows.
C20_Witness ==
    /\ pc = "rows"
    /\ Len(TeamOf(input)) = 2
    /\ Len(output) = 3
    /\ \A n \in 1..3 : ~IsFallbackRow(output[n])

\* C20 as stated: one row per team member, or one fallback row if the company
\* has no team members.
C20_RowPerMember ==
    pc = "rows" =>
       IF TeamOf(input) = <<>>
       THEN Len(output) = 1 /\ IsFallbackRow(output[1])
       ELSE /\ Len(output) = Len(TeamOf(input))
            /\ \A n \in 1..Len(output) : ~IsFallbackRow(output[n])

(***************************************************************************)
(* C21.  A lookup that finds no frame and a lookup that finds its frame    *)
(* without the field: the records returned for the two frame lists.        *)
(***************************************************************************)
\* The frame list es without its entry i (0-based).
Without(es, i) == SubSeq(es, 1, i) \o SubSeq(es, i + 2, Len(es))

\* The list has no site-metadata frame, direct or wrapped.
NoSiteFrame(es) ==
    get_script2_index(es) = -1 /\ get_script2_alt_index(es).idx = -1

\* The list has no profile frame.
NoProfileFrame(es) == get_script4_index(es) = -1

\* C21: when the site-metadata frame is there without a url, or the profile
\* frame is there without any profile field, the record returned differs from
\* the record returned for the same list without that frame.
C21_Distinct ==
    LET Differs(es) == out # extract_data_from_scripts(es).val
        Site(i) ==
          (i # -1 /\ "url" \notin DOMAIN out /\ NoSiteFrame(Without(data, i)))
             => Differs(Without(data, i))
        Profile(i) ==
          (/\ i # -1
           /\ DOMAIN out \cap {"facebookUrl", "instagramUrl", "teamMembers"} = {}
           /\ NoProfileFrame(Without(data, i)))
             => Differs(Without(data, i))
    IN  pc = "extracted" =>
           Site(get_script2_index(data)) /\ Profile(get_script4_index(data))

(***************************************************************************)
(* C22.  The type tag of an entry, against the rule read off the buffer at *)
(* the position after the entry's id and delimiter.                        *)
(***************************************************************************)
\* The tag the rule gives at position p of buf: T when the character at p is
\* T, else the characters from p up to the first of " { [ n T.
RuleTag(buf, p) ==
    IF At(buf, p) = "T" THEN <<"T">>
    ELSE Slice(buf, p, Min({j \in p..Len(buf) :
                              At(buf, j) \in AlphaStop \cup {"T", ""}}))

\* C22: the tag of every entry is the tag the rule gives after the entry's id
\* and one delimiter, and the value of an entry with another tag than T begins
\* right after the tag.
C22_TypeTag ==
    LET Holds(i, p) ==
          /\ data[i].data_type = RuleTag(combined, p)
          /\ data[i].data_type # <<"T">>
                => spans[i].vstart = p + Len(data[i].data_type)
    IN  \A i \in 1..Len(spans) :
           Holds(i, spans[i].start + Len(data[i].hex_string) + 1)

(***************************************************************************)
(* C23.  The length an entry holds, against the length its frame declared. *)
(***************************************************************************)
\* The declared length of entry i as lines 65-75 read it off the buffer: the
\* hex length of a T frame, -1 (None) for a frame with another tag.
DeclaredLength(i) ==
    AfterTag(From(SplitAfter(From(combined, spans[i].start), data[i].hex_string), 1),
             data[i].data_type).declared

\* C23: the obj_length of every entry is the declared length of its frame,
\* whatever the probe found: the hex length of a T frame, None (-1) for a frame
\* with another tag.
C23_DeclaredLength ==
    \A i \in 1..Len(spans) : data[i].obj_length = DeclaredLength(i)

(***************************************************************************)
(* C24.  Termination of the framing loop.                                  *)
(***************************************************************************)
\* C24: a pass of the loop that is followed by another pass leaves a remaining
\* buffer strictly shorter than the one it began with, and the loop ends, by
\* returning or by raising.
C24_Termination ==
    /\ [][(pc = "frame" /\ pc' = "frame") => Len(other') < Len(other)]_vars
    /\ <>(pc # "frame")

\* The loop returned two entries, the first a T entry after which the resync
\* moved the cursor backwards, into the value of the entry.
C24_Witness ==
    /\ pc = "site"
    /\ Len(spans) = 2
    /\ data[1].data_type = <<"T">>
    /\ spans[1].next < spans[1].vend

(***************************************************************************)
(* C25.  Resync on the array signature: where pass i resumes when the      *)
(* signature of a $L1f array is in the value of its T frame or in the 20   *)
(* characters after it.                                                    *)
(***************************************************************************)
ArrayInWindow(i) ==
    /\ data[i].data_type = <<"T">>
    /\ Contains(Slice(combined, spans[i].vstart, spans[i].vend + ResyncLookahead),
                Checks[2])

\* 2 characters before the first array signature of the buffer the value of
\* entry i was sliced from, and no earlier than the start of that buffer.
ArrayReset(i) ==
    LET NotBefore(at) == IF at < spans[i].vstart THEN spans[i].vstart ELSE at
    IN  NotBefore(spans[i].vstart
                    + Find(From(combined, spans[i].vstart), Checks[2]) - ResyncBack)

\* C25 as stated: after a T frame with the array signature in its value or
\* the 20 characters after it, the next pass starts 2 characters before the
\* first array signature of the pre-slice buffer (clamped to its start).
C25_ArrayMinusTwo ==
    \A i \in 1..Len(spans) :
       ArrayInWindow(i) => spans[i].next = ArrayReset(i)

\* C25 amended: the same, when :{"__typename is not in that window too; the
\* signatures are tried in order and the first one found decides.
C25_ArrayUnlessTypename ==
    \A i \in 1..Len(spans) :
       (ArrayInWindow(i) /\ ~TypenameInWindow(i))
       => spans[i].next = ArrayReset(i)

C25_Witness ==
    \E i \in 1..Len(spans) :
       /\ ArrayInWindow(i)
       /\ ~TypenameInWindow(i)
       /\ spans[i].vstart < ArrayReset(i)
       /\ spans[i].next = ArrayReset(i)
       /\ spans[i].next # spans[i].vend
       /\ Len(data) > i
       /\ data[i + 1].hex_string = <<"9">>

(***************************************************************************)
(* C26.  No resync: where pass i resumes when its frame is not a T frame,  *)
(* or no signature is in its value or the 20 characters after it.          *)
(***************************************************************************)
\* The end of the first obj_length characters of the buffer the value of
\* entry i was sliced from.
AfterObjLength(i) ==
    LET NotAfter(at) == IF at > Len(combined) THEN Len(combined) ELSE at
    IN  NotAfter(spans[i].vstart + data[i].obj_length)

\* C26: a frame that is not T-tagged, or has neither signature in its value
\* followed by the next 20 characters, leaves the pre-slice buffer less its
\* first obj_length characters.
C26_CursorAlone ==
    \A i \in 1..Len(spans) :
       (data[i].data_type # <<"T">> \/ (~TypenameInWindow(i) /\ ~ArrayInWindow(i)))
       => spans[i].next = AfterObjLength(i)

C26_Witness ==
    \E i \in 1..Len(spans) :
       /\ data[i].data_type = <<"T">>
       /\ ~TypenameInWindow(i)
       /\ ~ArrayInWindow(i)
       /\ Contains(From(combined, spans[i].vend), Checks[1])
       /\ spans[i].next = spans[i].vstart + data[i].obj_length
       /\ Len(data) > i
       /\ data[i + 1].data_type # <<"T">>
       /\ spans[i + 1].next = spans[i + 1].vstart + data[i + 1].obj_length

(***************************************************************************)
(* C27.  The frame the site-metadata lookup reads the url from (data: the  *)
(* list the lookup was given; out at pc = "profile": what it returned).    *)
(***************************************************************************)
\* What the lookup writes for a frame whose val is v: the url of the JSON
\* object, when v parses and the url is truthy.
ReadUrl(v) ==
    LET Url(url) ==
          IF url.exc = "" /\ Truthy(url.val)
          THEN OutSet(EmptyDict, "url", url.val) ELSE EmptyDict
        Data(d) ==
          IF d.exc # "" THEN EmptyDict ELSE Url(DotGet(d.val, <<"u", "r", "l">>, PyNone))
    IN  Data(Loads(v))

DirectFrames ==
    {i \in 1..Len(data) : StartsWith(data[i].val.s, <<"{", "\"", "@", "c", "o", "n", "t", "e", "x", "t", "\"">>)}

WrapperFrames == {i \in 1..Len(data) : IsWrapper(i)}

\* The __html of wrapper i, [exc, val].
Unwrapped(i) ==
    InnerHtml(From(data[i].val.s, Find(data[i].val.s, s_marker)))

Unwrappable == {i \in WrapperFrames : Unwrapped(i).exc = ""}

\* The lookup took wrapper w: it replaced the val of w alone, by its __html,
\* and read the url from that.
TookWrapper(w) ==
    /\ Replaced \subseteq {w}
    /\ parsed.val[w].val = Unwrapped(w).val
    /\ out = ReadUrl(parsed.val[w].val)

\* The lookup took the first frame of direct, unchanged, when there is one.
TookDirect ==
    /\ Replaced = {}
    /\ out = ReadUrl(data[Min(DirectFrames)].val)

\* C27 as stated: the url is read from the first frame that starts with
\* {"@context"; when there is none, the first wrapper is the frame unwrapped
\* and read (no frame, when the first wrapper cannot be unwrapped).
C27_FirstWrapper ==
    pc = "profile" =>
       IF DirectFrames # {} THEN TookDirect
       ELSE IF Unwrappable # {} /\ Min(WrapperFrames) \in Unwrappable
       THEN TookWrapper(Min(WrapperFrames))
       ELSE Replaced = {} /\ out = EmptyDict

\* C27 amended: when no frame starts with {"@context", the first wrapper that
\* can be unwrapped is (one whose text does not parse, or has no
\* dangerouslySetInnerHTML.__html, is passed over and left as it was).
C27_FirstUnwrappable ==
    pc = "profile" =>
       IF DirectFrames # {} THEN TookDirect
       ELSE IF Unwrappable # {} THEN TookWrapper(Min(Unwrappable))
       ELSE Replaced = {} /\ out = EmptyDict

\* A wrapper that cannot be unwrapped, then one that can and holds a url.
C27_Witness ==
    /\ pc = "profile"
    /\ DirectFrames = {}
    /\ WrapperFrames = {1, 2}
    /\ Unwrappable = {2}
    /\ Replaced = {2}
    /\ "url" \in DOMAIN out

(***************************************************************************)
(* C28.  The frame and the object the profile fields are read from         *)
(* (parsed: the list the profile lookup reads; out: the record returned).  *)
(***************************************************************************)
FramesFour == {i \in 1..Len(data) : data[i].hex_string = <<"4">>}

SocialKeys == {<<"facebookUrl", <<"f", "a", "c", "e", "b", "o", "o", "k", "U", "r", "l">>>>, <<"instagramUrl", <<"i", "n", "s", "t", "a", "g", "r", "a", "m", "U", "r", "l">>>>}

\* json.loads(v)[3], [exc, val].
ElementThree(v) ==
    LET Loaded(loaded) ==
          IF loaded.exc # "" THEN loaded ELSE IndexInt(loaded.val, ProfileIndex)
    IN  Loaded(Loads(v))

\* The pro member of json.loads(v)[3], an empty object when the element has
\* none; [exc, val].
ProMember(v) ==
    LET Element(e) ==
          IF e.exc # "" THEN e ELSE DotGet(e.val, <<"p", "r", "o">>, PyDict(<<>>))
    IN  Element(ElementThree(v))

NoProfileFields ==
    /\ "facebookUrl" \notin DOMAIN out
    /\ "instagramUrl" \notin DOMAIN out
    /\ "teamMembers" \notin DOMAIN out

\* The profile fields of out are those object o holds (o: [exc, val]).
ReadFrom(o) ==
    IF o.exc # "" \/ o.val.t # "obj" THEN NoProfileFields
    ELSE /\ \A key \in SocialKeys :
               IF DictHas(o.val, key[2]) /\ Truthy(DictGet(o.val, key[2]))
               THEN key[1] \in DOMAIN out /\ out[key[1]] = DictGet(o.val, key[2])
               ELSE key[1] \notin DOMAIN out
         /\ "teamMembers" \in DOMAIN out
               => DictHas(o.val, <<"t", "e", "a", "m", "M", "e", "m", "b", "e", "r", "s">>) /\ Truthy(DictGet(o.val, <<"t", "e", "a", "m", "M", "e", "m", "b", "e", "r", "s">>))

\* C28 as stated: the profile fields are read from element 3 of the value of
\* the frame whose hex_string is 4.
C28_FromElementThree ==
    pc = "extracted" =>
       IF FramesFour = {} THEN NoProfileFields
       ELSE ReadFrom(ElementThree(parsed.val[Min(FramesFour)].val))

\* C28 amended: they are read from the pro member of element 3 of the value
\* of the first frame whose hex_string is 4.
C28_FromProMember ==
    pc = "extracted" =>
       IF FramesFour = {} THEN NoProfileFields
       ELSE ReadFrom(ProMember(parsed.val[Min(FramesFour)].val))

\* A frame 40 with a profile, then the frame 4 the fields came from.
C28_Witness ==
    /\ pc = "extracted"
    /\ Len(data) = 2
    /\ data[1].hex_string = <<"4", "0">>
    /\ data[2].hex_string = <<"4">>
    /\ DOMAIN out = {"facebookUrl", "instagramUrl", "teamMembers"}
    /\ out["facebookUrl"] = PyStr(<<"f">>)

(***************************************************************************)
(* C29.  The teamMembers mapping against the teamMembers list of the pro   *)
(* object of frame 4.                                                      *)
(***************************************************************************)
\* The pro object the profile lookup reads, [exc, val]; an exception when
\* there is no frame 4.
ProRead ==
    IF FramesFour = {} THEN Raise("KeyError")
    ELSE ProMember(parsed.val[Min(FramesFour)].val)

\* The lookup has a teamMembers list with entries to convert (pro: the pro
\* object read, [exc, val]).
HasRoster(pro) ==
    /\ pro.exc = ""
    /\ pro.val.t = "obj"
    /\ DictHas(pro.val, <<"t", "e", "a", "m", "M", "e", "m", "b", "e", "r", "s">>)
    /\ DictGet(pro.val, <<"t", "e", "a", "m", "M", "e", "m", "b", "e", "r", "s">>).t = "arr"
    /\ DictGet(pro.val, <<"t", "e", "a", "m", "M", "e", "m", "b", "e", "r", "s">>).k # <<>>

\* The entries of the list, in source order.
Roster(team) == [i \in 1..Len(team.k) |-> team.k[i].val]

\* The entries that have a name.
Named(roster) == SelectSeq(roster, LAMBDA m : m.t = "obj" /\ DictHas(m, <<"n", "a", "m", "e">>))

MemberName(m) == DictGet(m, <<"n", "a", "m", "e">>)
MemberTitle(m) == IF DictHas(m, <<"t", "i", "t", "l", "e">>) THEN DictGet(m, <<"t", "i", "t", "l", "e">>) ELSE PyNone

\* One pair per entry that has a name, in source order.
OnePerNamed(named) ==
    [j \in 1..Len(named) |-> Pair(MemberName(named[j]), MemberTitle(named[j]))]

\* One pair per name, where the name first occurs, with the title of the last
\* entry of that name.
OnePerName(named) ==
    LET LastOf(j) ==
          CHOOSE k \in j..Len(named) :
             /\ MemberName(named[k]) = MemberName(named[j])
             /\ \A l \in (k + 1)..Len(named) :
                   MemberName(named[l]) # MemberName(named[j])
        First(firsts) ==
          [n \in 1..Len(firsts) |->
              Pair(MemberName(named[firsts[n]]), MemberTitle(named[LastOf(firsts[n])]))]
    IN  First(SelectSeq([j \in 1..Len(named) |-> j],
                        LAMBDA j : \A k \in 1..(j - 1) :
                                      MemberName(named[k]) # MemberName(named[j])))

\* C29 as stated: one entry of the mapping per list entry that has a name,
\* name to title, in source order; the social urls are returned too.
C29_OnePerEntry ==
    pc = "extracted" =>
       \A pro \in {ProRead} :
          HasRoster(pro) =>
             /\ "teamMembers" \in DOMAIN out
             /\ \A named \in {Named(Roster(DictGet(pro.val, <<"t", "e", "a", "m", "M", "e", "m", "b", "e", "r", "s">>))) } :
                   out["teamMembers"] = PyDict(OnePerNamed(named))
             /\ ReadFrom(pro)

\* C29 amended: for a list of objects, one entry per name, in the order the
\* names first occur, with the title of the last entry of that name; an entry
\* that is a number loses the mapping; the social urls are returned anyway.
C29_OnePerName ==
    pc = "extracted" =>
       \A pro \in {ProRead} :
          HasRoster(pro) =>
             \A roster \in {Roster(DictGet(pro.val, <<"t", "e", "a", "m", "M", "e", "m", "b", "e", "r", "s">>))} :
                /\ (\A i \in 1..Len(roster) : roster[i].t = "obj")
                      => /\ "teamMembers" \in DOMAIN out
                         /\ \A named \in {Named(roster)} :
                               out["teamMembers"] = PyDict(OnePerName(named))
                /\ (\E i \in 1..Len(roster) : roster[i].t = "num")
                      => "teamMembers" \notin DOMAIN out
                /\ ReadFrom(pro)

\* A roster whose first entry has no name and whose last has no title.
C29_Witness ==
    /\ pc = "extracted"
    /\ \E pro \in {ProRead} :
          /\ HasRoster(pro)
          /\ \E roster \in {Roster(DictGet(pro.val, <<"t", "e", "a", "m", "M", "e", "m", "b", "e", "r", "s">>))} :
                /\ Len(roster) = 3
                /\ Len(Named(roster)) = 2
                /\ ~DictHas(roster[1], <<"n", "a", "m", "e">>)
    /\ out["teamMembers"] =
          PyDict(<<Pair(PyStr(<<"A">>), PyStr(<<"P">>)), Pair(PyStr(<<"B">>), PyNone)>>)
    /\ "instagramUrl" \in DOMAIN out

(***************************************************************************)
(* C30.  The lookup _enrich_row makes for a row, and the row it returns    *)
(* when it makes none or the lookup raises.                                *)
(***************************************************************************)
\* The website and the contact person of the row: the first column of those
\* read that holds something.
RowWebsite == RowOr(input.row, WebsiteKeys)
RowContact == RowOr(input.row, ContactKeys)

\* C30: manager.enrich is called at most once, only for a row with a contact
\* person and a website a domain is derived from, with that name and that
\* domain; a row it is not called for, and a row whose call raised, is
\* returned as it was, and no exception of the call leaves _enrich_row.
C30_KeyedLookup ==
    /\ Len(requests) <= 1
    /\ requests # <<>>
          => /\ Truthy(RowWebsite)
             /\ Truthy(RowContact)
             /\ \A domain \in {extract_domain(RowWebsite)} :
                   /\ Truthy(domain)
                   /\ requests[1].payload.company_domain = PyList(<<Item(domain)>>)
             /\ requests[1].payload.full_name = RowContact
    /\ (pc = "enriched" /\ requests = <<>>) => output = <<input.row>>
    /\ \A i \in 1..Len(requests) :
          requests[i].reply.exc \notin {"", "pending"}
             => pc = "enriched" /\ output = <<input.row>>

\* A row with a website and a contact person, whose lookup was rate limited.
C30_Witness ==
    /\ pc = "enriched"
    /\ Len(requests) = 1
    /\ requests[1].reply.exc = "RateLimitError"
    /\ "Website" \in DOMAIN input.row
    /\ input.row["Website"] = PyStr(<<"h", "t", "t", "p", "s", ":", "/", "/", "w", "w", "w", ".", "A", "c", "m", "e",
        ".", "c", "o", "m", "/", "a", "b", "o", "u", "t">>)
    /\ requests[1].payload.company_domain = PyList(<<Item(PyStr(<<"a", "c", "m", "e", ".", "c", "o", "m">>))>>)
    /\ requests[1].payload.full_name = PyStr(<<"A", "n", "n", " ", "L", "e", "e">>)
    /\ "Email" \in DOMAIN input.row
    /\ output = <<input.row>>


(***************************************************************************)
(* C31.  ContactOutClient._request and the status 429.                     *)
(***************************************************************************)
Is429(answer) == answer.kind = "cre" /\ answer.status = 429

OtherError(answer) == answer.kind = "cre" /\ answer.status # 429

\* C31: a 429 response is retried at most max_retries_on_429 times, so that
\* there are max_retries_on_429 + 1 attempts in all, and then RateLimitError
\* is raised, its retry_after the integer of the last response's Retry-After
\* header, None without one; a response with another error status is raised
\* as its mapped exception at once, the attempt it answered being the last.
C31_RateLimit ==
    pc \in {"attempt", "sleep", "returned", "raised"} /\ input.started =>
      /\ Len(sent) <= input.max_retries_on_429 + 1
      /\ attempt = Len(sent) + (IF pc = "attempt" THEN 1 ELSE 0)
      /\ \A i \in 1..Len(sent) :
            /\ OtherError(sent[i]) =>
                  /\ i = Len(sent)
                  /\ pc = "raised"
                  /\ exc = MappedError(sent[i].status, sent[i].msg)
            /\ Is429(sent[i]) /\ i <= input.max_retries_on_429 =>
                  \/ i < Len(sent)
                  \/ pc \in {"sleep", "attempt"}
            /\ Is429(sent[i]) /\ i = input.max_retries_on_429 + 1 =>
                  /\ pc = "raised"
                  /\ exc = "RateLimitError"
                  /\ retry_after = RetryAfter(sent[i].headers)
            /\ i < Len(sent) => Is429(sent[i])
      /\ pc = "raised" /\ exc = "RateLimitError" =>
            /\ Len(sent) = input.max_retries_on_429 + 1
            /\ \A i \in 1..Len(sent) : Is429(sent[i])

\* Every attempt allowed was answered 429, the last with Retry-After: 3, and
\* RateLimitError carries 3.
C31_Witness ==
    /\ pc = "raised"
    /\ exc = "RateLimitError"
    /\ input.max_retries_on_429 = MaxRetries429
    /\ Len(sent) = MaxRetries429 + 1
    /\ sent[1].headers = NoHeaders
    /\ retry_after = <<3>>


(***************************************************************************)
(* C32.  extract_data_from_scripts called twice on one frame list.         *)
(***************************************************************************)
\* C32: every call of extract_data_from_scripts on the same frame list returns
\* the record the first call returned, also when the first call replaced the
\* val of a dangerouslySetInnerHTML wrapper by its __html.
C32_Idempotent ==
    pc = "extracted" => \A i \in 1..Len(returns) : returns[i] = out

\* The first call unwrapped a wrapper and took the url from it; the second
\* call finds neither the wrapper nor a val that starts with the context key.
C32_Unwrapped ==
    /\ pc = "extracted"
    /\ Len(returns) = 1
    /\ Len(data) = 1
    /\ parsed.val # data
    /\ "url" \in DOMAIN returns[1]
    /\ out = EmptyDict

\* The calls agree when the first call unwrapped a wrapper whose __html
\* starts with the context key.
C32_SameWhenContextFirst ==
    /\ pc = "extracted"
    /\ Len(returns) = 1
    /\ parsed.val # data
    /\ "url" \in DOMAIN returns[1]
    /\ returns[1] = out


(***************************************************************************)
(* C33.  ContactOutTokenManager.enrich and its retry.                      *)
(***************************************************************************)
Returned(i) == calls[i].pc = "returned"

Raised(i) == calls[i].pc = "raised"

C33_RetriedToTheLimit ==
    \E i \in Calls :
        /\ Raised(i)
        /\ calls[i].exc = "RecursionError"

\* Every call ends, the RecursionError counted as an end.
C33_EndsOrOverflows == \A i \in Calls : <>(Returned(i) \/ Raised(i))


(***************************************************************************)
(* C34.  The quota recorded for a token and the requests sent on it.       *)
(***************************************************************************)
\* The calls whose enrich_person request on the token is outstanding.
Outstanding(cs, token) == {i \in DOMAIN cs : cs[i].pc = "api" /\ cs[i].token = token}

RECURSIVE SumRequired(_, _, _)
SumRequired(cs, among, k) ==
    IF among = {} THEN 0
    ELSE LET i == CHOOSE j \in among : TRUE
         IN  determine_required_quota(cs[i].payload)[k]
               + SumRequired(cs, among \ {i}, k)

\* The token has, in each quota recorded for it, what the requests outstanding
\* on it require together.
WithinQuota(cs, qs, token) ==
    \A k \in {"quota", "phone_quota", "search_quota"} :
        SumRequired(cs, Outstanding(cs, token), k) <= qs[token][k]

\* C34: when a call sends its request on a token, the requests then
\* outstanding on the token, the new one among them, require no more than the
\* quota recorded for the token: two calls are never both sent on a token
\* that has quota for one.
C34_QuotaRespected ==
    [][\A i \in Calls :
          calls[i].pc # "api" /\ calls'[i].pc = "api" =>
              WithinQuota(calls', quotas', calls'[i].token)]_vars

\* Two requests are outstanding on a token recorded with quota for one.
C34_BothSent ==
    \E token \in {"t1", "t2"} :
        /\ Cardinality(Outstanding(calls, token)) = 2
        /\ quotas[token].phone_quota = 1


(***************************************************************************)
(* C35.  The cache of ContactOutTokenManager.enrich.                       *)
(***************************************************************************)
EnrichKey(payload) == make_key("POST", "/people/enrich", payload)

\* The cache holds a result, not None, for the payload.
IsCached(cache_data, payload) ==
    /\ EnrichKey(payload) \in DOMAIN cache_data
    /\ cache_data[EnrichKey(payload)] # None

\* The dicts agree but for the key.
SameBut(d, e, key) ==
    /\ DOMAIN e = DOMAIN d \cup {key}
    /\ \A k \in DOMAIN d \ {key} : e[k] = d[k]

\* C35: a call of enrich whose payload has a cached result returns that
\* result at once, with no token selected, no request sent and no quota
\* refreshed; the cache is written only with the response of an enrich_person
\* that succeeded, under the payload's key, and a call that raises leaves the
\* cache as it was.
C35_CacheOnly ==
    [][/\ \A i \in Calls :
             /\ calls[i].pc = "start" /\ calls'[i] # calls[i]
                  /\ IsCached(cache, calls[i].payload) =>
                   /\ calls'[i].pc = "returned"
                   /\ calls'[i].res = cache[EnrichKey(calls[i].payload)]
                   /\ calls'[i].token = None
                   /\ quotas' = quotas
                   /\ cache' = cache
             /\ calls[i].pc # "raised" /\ calls'[i].pc = "raised" => cache' = cache
       /\ cache' # cache =>
             \E i \in Calls :
                 /\ calls[i].pc = "refresh"
                 /\ calls'[i].pc = "returned"
                 /\ calls'[i].res = calls[i].res
                 /\ SameBut(cache, cache', EnrichKey(calls[i].payload))
                 /\ cache'[EnrichKey(calls[i].payload)] = calls[i].res]_vars

\* A call returned the result the cache held from the start, the quotas being
\* what they were, and another call has had its response cached.
C35_Witness ==
    /\ \E i \in Calls : Returned(i) /\ calls[i].res = "r0"
    /\ \E i \in Calls :
          /\ Returned(i)
          /\ calls[i].res = "r1"
          /\ IsCached(cache, calls[i].payload)
          /\ cache[EnrichKey(calls[i].payload)] = "r1"


(***************************************************************************)
(* C36.  The pages collect_vendors requests and the vendors it returns.    *)
(***************************************************************************)
\* The vendors of the listing pages ps, in the order served.
RECURSIVE Served(_)
Served(ps) ==
    IF ps = <<>> THEN <<>>
    ELSE Served(SubSeq(ps, 1, Len(ps) - 1)) \o ListingPage(ps[Len(ps)])

CollectOver == pc \in {"returned", "raised"}

PagesInOrder ==
    /\ \A k \in 1..Len(sent) : sent[k] = input.start_page + k - 1
    /\ Len(collected) <= input.n
    /\ Len(collected) <= Len(Served(sent))
    /\ \A i \in 1..Len(collected) :
          collected[i].slug = NewVendor(Served(sent)[i]).slug
    /\ \A k \in 1..(Len(sent) - 1) :
          /\ Len(Served(SubSeq(sent, 1, k))) < input.n
          /\ ListingPage(sent[k]) # <<>>
    /\ pc \in {"list", "break", "returned"} =>
          Len(collected) = Min({input.n, Len(Served(sent))})
    /\ pc = "returned" =>
          /\ Len(output) = Len(collected)
          /\ \A i \in 1..Len(output) : output[i] = to_dict(collected[i])
          /\ \/ Len(collected) = input.n
             \/ sent # <<>> /\ ListingPage(sent[Len(sent)]) = <<>>

\* C36: collect_vendors requests the listing pages one after another from
\* start_page, none twice, none after n vendors are collected or after a page
\* without vendors; it returns at most n vendors, in the order the pages
\* served them; and the call ends.
C36_Paging == []PagesInOrder /\ <>CollectOver

\* The listing never runs out; three pages were requested from start_page 2
\* and the vendors of the three returned.
C36_Witness ==
    /\ pc = "returned"
    /\ input.endless
    /\ input.start_page = 2
    /\ sent = <<2, 3, 4>>
    /\ Len(output) = 3


(***************************************************************************)
(* C37.  The rows process_csv writes.                                      *)
(***************************************************************************)
\* The ids of the rows, in order.
Ids(rows) == [i \in 1..Len(rows) |-> rows[i]["id"]]

\* C37: the output of process_csv has every row of the input once, in the
\* order of the input, whether the row was enriched, could not be or was
\* skipped, and in whatever order the tasks ran.
C37_RowsInOrder ==
    pc = "written" => Ids(output) = Ids(input.rows)

\* Every row is written once, in some order.
C37_EveryRowOnce ==
    pc = "written" =>
        /\ Len(output) = Len(input.rows)
        /\ \A i \in 1..Len(input.rows) :
              Cardinality({j \in 1..Len(output) :
                             output[j]["id"] = input.rows[i]["id"]}) = 1

\* Two rows that get no enrichment are written in the other order.
C37_Swapped ==
    /\ pc = "written"
    /\ Len(input.rows) = 2
    /\ \A i \in 1..2 : ~ToEnrich(input.rows[i])
    /\ Ids(output) = <<PyStr(<<"2">>), PyStr(<<"1">>)>>

(***************************************************************************)
(* C38: HTTPClient sends a request with certificate verification disabled  *)
(* only after a certificate error on that same url, and only when the      *)
(* host of the url is in insecure_host_whitelist; with an empty whitelist  *)
(* every request is sent verified.                                         *)
(***************************************************************************)
Unverified == {i \in 1..Len(sent) : ~sent[i].verified}

AfterCertificateError(i) ==
    \E j \in 1..(i - 1) :
       /\ sent[j].url = sent[i].url
       /\ sent[j].verified
       /\ sent[j].attempt = sent[i].attempt
       /\ sent[j].answer = "ClientConnectorCertificateError"

C38_UnverifiedOnlyWhitelisted ==
    /\ \A i \in Unverified :
          /\ AfterCertificateError(i)
          /\ HostOf(sent[i].url) \in input.insecure_whitelist
    /\ input.insecure_whitelist = {} => Unverified = {}

\* An insecure retry was made and answered.
C38_Witness ==
    /\ pc = "returned"
    /\ Len(sent) = 3
    /\ ~sent[3].verified
    /\ sent[3].answer = "ok"

(***************************************************************************)
(* C39: one call of _request_with_retries makes at most max_retries        *)
(* attempts on the original url, an attempt being a turn of the loop,      *)
(* which opens with the verified request of the url; an error of that      *)
(* request other than a DNS or certificate error is raised at once; when   *)
(* the DNS or certificate errors persist the call raises at attempt        *)
(* max_retries and not before; and the call ends.                          *)
(***************************************************************************)
Attempts == {i \in 1..Len(sent) : sent[i].verified /\ sent[i].url = input.url}

Retried == {"ClientConnectorDNSError", "ClientConnectorCertificateError"}

RetryBound ==
    /\ attempt <= input.max_retries
    /\ Cardinality(Attempts) <= input.max_retries
    /\ \A i \in Attempts : sent[i].attempt = Cardinality({j \in Attempts : j <= i})
    /\ \A i \in Attempts :
          sent[i].answer \notin Retried \cup {"ok"}
             => /\ i = Len(sent)
                /\ pc = "raised"
                /\ exc = sent[i].answer
    /\ pc \in {"sleep", "alt", "insecure"} => sent[Len(sent)].answer # "ok"
    /\ pc = "raised" /\ input.started /\ exc \in Retried
          => /\ attempt = input.max_retries
             /\ Cardinality(Attempts) = input.max_retries
             /\ \A i \in Attempts : sent[i].answer \in Retried

Scheduled == [i \in 1..Len(sent) |-> Run(sent[i])]

C40_Deferred ==
    /\ pc = "body" => ran = <<>>
    /\ pc = "exited" => ran = Scheduled

\* What the runtime does: nothing runs before the outermost exit, and at that
\* exit, when no function raises, each of the distinct calls scheduled runs
\* once.
C40_DistinctCallsRunOnce ==
    /\ pc = "body" => ran = <<>>
    /\ pc = "exited" =>
          /\ Len(ran) = Cardinality({sent[i] : i \in 1..Len(sent)})
          /\ {ran[j] : j \in 1..Len(ran)} = {Scheduled[i] : i \in 1..Len(sent)}

\* f(1) scheduled twice, run once.
C40_Duplicate ==
    /\ pc = "exited"
    /\ sent = <<DeferredCall("f", 1, <<>>), DeferredCall("f", 1, <<>>)>>
    /\ ran = <<Run(DeferredCall("f", 1, <<>>))>>

\* A block nested in an execution_context function: the calls made after its
\* __enter__ run before those made before it.
C40_OutOfOrder ==
    /\ pc = "exited"
    /\ sent = <<DeferredCall("f", 1, <<>>), DeferredCall("f", 2, <<>>)>>
    /\ ran = <<Run(DeferredCall("f", 2, <<>>)), Run(DeferredCall("f", 1, <<>>))>>

\* A function raised: the calls after it did not run.
C40_Aborted ==
    /\ pc = "raised"
    /\ Len(sent) = 2
    /\ Len(ran) = 1

=============================================================================
